---- MODULE Spec2Model ----
(***************************************************************************)
(* Model of the Reclaim React-Native SDK:                                  *)
(*   - the proof-verification pipeline (verifyProof, witness resolution,   *)
(*     identifier check, assertValidSignedClaim), as pure operators;       *)
(*   - the session polling state machine of                                *)
(*     ReclaimProofRequest.startSession (setInterval + async tick body).   *)
(***************************************************************************)
EXTENDS Integers, Sequences, FiniteSets, Bags, TLC

\* ------------------------------------------------------------------------
\* Bounds of the model
\* ------------------------------------------------------------------------

\* number of 3-second interval periods the wall clock may advance in the
\* specifications of the failure timeout
MaxAdvances == 12

\* the same for the specification with several polling tasks
ShortAdvances == 3

\* number of startSession invocations on the instance
MaxStarts == 2

\* number of tick bodies that may be suspended at an await at the same time
MaxInFlight == 2

\* the callback counters saturate here
MaxCount == 2

\* longest signature list of the quorum inputs
MaxSigs == 3

\* longest signature list of the proofs handed to verifyProof
MaxProofSigs == 2

\* longest expected-witness list of the quorum inputs
MaxExpected == 2

\* ------------------------------------------------------------------------
\* Program constants
\* ------------------------------------------------------------------------

FAILURE_TIMEOUT == 30000

POLL_INTERVAL == 3000

\* value of an unset `lastFailureTime?: number`
Undefined == -1

\* the double-quote character stripped by replaceAll(proof.identifier, '"', '')
QUOTE == "\""

SeqSet(s) == {s[i] : i \in 1..Len(s)}

\* ------------------------------------------------------------------------
\* Addresses and signatures
\* ------------------------------------------------------------------------

\* String.prototype.toLowerCase on the addresses of the model
toLowerCase(s) ==
  CASE s = "0xAa" -> "0xaa"
    [] s = "0xBb" -> "0xbb"
    [] s = "0xCc" -> "0xcc"
    [] OTHER -> s

\* A signature is modelled by what ethers.utils.verifyMessage recovers from it
\* over the claim's sign data: the signer's checksummed address; "malformed"
\* is a signature for which arrayify/verifyMessage throws.
ChecksumAddrs == {"0xAa", "0xBb", "0xCc"}

Malformed == "malformed"

\* recoverSignersOfSignedClaim: signatures.map(verifyMessage(..).toLowerCase())
recoverSignersOfSignedClaim(signatures) ==
  IF \E i \in 1..Len(signatures) : signatures[i] = Malformed
  THEN [threw |-> TRUE, addrs |-> <<>>]
  ELSE [threw |-> FALSE,
        addrs |-> [i \in 1..Len(signatures) |-> toLowerCase(signatures[i])]]

\* the loop  for (const witness of witnessAddresses)
\*             if (witnessesNotSeen.has(witness)) witnessesNotSeen.delete(witness)
RECURSIVE DeleteSeen(_, _)
DeleteSeen(notSeen, addrs) ==
  IF addrs = <<>> THEN notSeen
  ELSE DeleteSeen(IF Head(addrs) \in notSeen THEN notSeen \ {Head(addrs)}
                  ELSE notSeen,
                  Tail(addrs))

\* a plausible slip: one matching signature empties the whole set
WitnessesNotSeenMutant(expected, addrs) ==
  IF \E i \in 1..Len(addrs) : addrs[i] \in SeqSet(expected)
  THEN {} ELSE SeqSet(expected)

WitnessesNotSeen(expected, addrs) == DeleteSeen(SeqSet(expected), addrs)

\* assertValidSignedClaim (utils/proofUtils): the result, the error thrown and
\* the addresses its message names
assertValidSignedClaim(signatures, expectedWitnessAddresses) ==
  LET rec == recoverSignersOfSignedClaim(signatures) IN
  IF rec.threw
  THEN [ok |-> FALSE, err |-> "Error", named |-> {}]
  ELSE LET witnessesNotSeen ==
             WitnessesNotSeen(expectedWitnessAddresses, rec.addrs) IN
       IF Cardinality(witnessesNotSeen) > 0
       THEN [ok |-> FALSE, err |-> "ProofNotVerifiedError",
             named |-> witnessesNotSeen]
       ELSE [ok |-> TRUE, err |-> "none", named |-> {}]

\* assertValidSignedClaim (legacy utils.ts): the message joins the whole
\* expected list
assertValidSignedClaimLegacy(signatures, expectedWitnessAddresses) ==
  LET rec == recoverSignersOfSignedClaim(signatures) IN
  IF rec.threw
  THEN [ok |-> FALSE, err |-> "Error", named |-> {}]
  ELSE LET witnessesNotSeen ==
             WitnessesNotSeen(expectedWitnessAddresses, rec.addrs) IN
       IF Cardinality(witnessesNotSeen) > 0
       THEN [ok |-> FALSE, err |-> "ProofNotVerifiedError",
             named |-> SeqSet(expectedWitnessAddresses)]
       ELSE [ok |-> TRUE, err |-> "none", named |-> {}]

\* ------------------------------------------------------------------------
\* Identifier derivation and normalisation
\* ------------------------------------------------------------------------

\* replaceAll(str, find, replace) on a string held as a sequence of characters
RECURSIVE replaceAll(_, _, _)
replaceAll(str, find, replace) ==
  IF str = <<>> THEN <<>>
  ELSE (IF Head(str) = find THEN replace ELSE <<Head(str)>>)
       \o replaceAll(Tail(str), find, replace)

\* the claim infos {provider, parameters, context} of the model
ClaimInfos == {"ci1", "ci2"}

\* getIdentifierFromClaimInfo: a hash, injective on the claim infos of the model
getIdentifierFromClaimInfo(info) ==
  IF info = "ci1" THEN <<"a">> ELSE <<"b">>

Identifiers == { <<"a">>, <<QUOTE, "a", QUOTE>>, <<"b">> }

\* ------------------------------------------------------------------------
\* Witness resolution
\* ------------------------------------------------------------------------

\* The beacon environment: whether makeBeacon() yields a beacon, whether its
\* getState answers, and the witness list fetchWitnessListForClaim selects
\* for an identifier.
SelectAll(w) == [id \in Identifiers |-> w]

\* the beacon environments met while polling
NoBeacon == [avail |-> FALSE, up |-> FALSE, select |-> SelectAll(<<>>)]

BeaconAa == [avail |-> TRUE, up |-> TRUE, select |-> SelectAll(<<"0xAa">>)]

PollBeacons == {NoBeacon, BeaconAa}

Beacons ==
  { [avail |-> FALSE, up |-> FALSE, select |-> SelectAll(<<>>)],
    [avail |-> TRUE,  up |-> FALSE, select |-> SelectAll(<<>>)],
    [avail |-> TRUE,  up |-> TRUE,  select |-> SelectAll(<<"0xAa">>)],
    [avail |-> TRUE,  up |-> TRUE,  select |-> SelectAll(<<"0xAa", "0xBb">>)],
    [avail |-> TRUE,  up |-> TRUE,  select |-> SelectAll(<<>>)],
    [avail |-> TRUE,  up |-> TRUE,
     select |-> [id \in Identifiers |->
                   IF id = <<"a">> THEN <<"0xAa">> ELSE <<"0xBb">>]] }

\* fetchWitnessListForClaim(state, identifier, timestampS): the beacon's
\* selection rule, a black box
fetchWitnessListForClaim(beacon, identifier) == beacon.select[identifier]

\* getWitnessesForClaim; `calls` lists the beacon operations it invoked
getWitnessesForClaim(beacon, identifier) ==
  IF ~beacon.avail
  THEN [threw |-> TRUE, witnesses |-> <<>>, calls |-> <<"makeBeacon">>]
  ELSE IF ~beacon.up
  THEN [threw |-> TRUE, witnesses |-> <<>>,
        calls |-> <<"makeBeacon", "getState">>]
  ELSE LET witnessList == fetchWitnessListForClaim(beacon, identifier) IN
       [threw |-> FALSE,
        witnesses |-> [i \in 1..Len(witnessList) |-> toLowerCase(witnessList[i])],
        calls |-> <<"makeBeacon", "getState">>]

\* a plausible slip: the beacon is consulted before the manual-verify test
ResolveWitnessesMutant(proof, beacon) ==
  LET r == getWitnessesForClaim(beacon, proof.identifier) IN
  IF Len(proof.witnesses) > 0 /\ proof.witnesses[1].url = "manual-verify"
     /\ ~r.threw
  THEN [threw |-> FALSE, witnesses |-> <<proof.witnesses[1].id>>,
        calls |-> r.calls]
  ELSE r

\* witness resolution of verifyProof / verifySignedProof:
\*   if (proof.witnesses.length && proof.witnesses[0]?.url === 'manual-verify')
ResolveWitnesses(proof, beacon) ==
  IF Len(proof.witnesses) > 0 /\ proof.witnesses[1].url = "manual-verify"
  THEN [threw |-> FALSE, witnesses |-> <<proof.witnesses[1].id>>,
        calls |-> <<>>]
  ELSE getWitnessesForClaim(beacon, proof.identifier)

\* ------------------------------------------------------------------------
\* verifyProof
\* ------------------------------------------------------------------------

\* a plausible slip: the identifier is derived but never compared
IdentifierAndQuorumMutant(proof, witnesses) ==
  assertValidSignedClaim(proof.signatures, witnesses).ok

\* the part of verifyProof / verifySignedProof after witness resolution:
\* identifier check and quorum check; TRUE when neither throws
IdentifierAndQuorum(proof, witnesses) ==
  LET calculatedIdentifier == getIdentifierFromClaimInfo(proof.claimInfo)
      identifier == replaceAll(proof.identifier, QUOTE, <<>>)
  IN  /\ calculatedIdentifier = identifier
      /\ assertValidSignedClaim(proof.signatures, witnesses).ok

\* a plausible slip: witness resolution is left outside the try block, as
\* in the legacy verifySignedProof, and its failure propagates
verifyProofOneMutant(proof, beacon) ==
  IF proof.isNull
  THEN [threw |-> TRUE, err |-> "TypeError", value |-> FALSE,
        witnesses |-> <<>>, calls |-> <<>>]
  ELSE IF Len(proof.signatures) = 0
  THEN [threw |-> TRUE, err |-> "SignatureNotFoundError", value |-> FALSE,
        witnesses |-> <<>>, calls |-> <<>>]
  ELSE LET w == ResolveWitnesses(proof, beacon) IN
       IF w.threw
       THEN [threw |-> TRUE, err |-> "Error", value |-> FALSE,
             witnesses |-> <<>>, calls |-> w.calls]
       ELSE [threw |-> FALSE, err |-> "none",
             value |-> IdentifierAndQuorum(proof, w.witnesses),
             witnesses |-> w.witnesses, calls |-> w.calls]

\* verifyProof of one proof.  value: the boolean returned; threw/err: the
\* error raised instead; witnesses: the expected witness set handed to
\* assertValidSignedClaim; calls: the beacon operations invoked.
verifyProofOne(proof, beacon) ==
  IF proof.isNull
  THEN [threw |-> TRUE, err |-> "TypeError", value |-> FALSE,
        witnesses |-> <<>>, calls |-> <<>>]
  ELSE IF Len(proof.signatures) = 0
  THEN [threw |-> TRUE, err |-> "SignatureNotFoundError", value |-> FALSE,
        witnesses |-> <<>>, calls |-> <<>>]
  ELSE LET w == ResolveWitnesses(proof, beacon) IN
       IF w.threw
       THEN [threw |-> FALSE, err |-> "none", value |-> FALSE,
             witnesses |-> <<>>, calls |-> w.calls]
       ELSE [threw |-> FALSE, err |-> "none",
             value |-> IdentifierAndQuorum(proof, w.witnesses),
             witnesses |-> w.witnesses, calls |-> w.calls]

\* Reclaim.verifySignedProof (legacy): witness resolution is outside the try
verifySignedProof(proof, beacon) ==
  IF Len(proof.signatures) = 0
  THEN [threw |-> TRUE, err |-> "Error", value |-> FALSE,
        witnesses |-> <<>>, calls |-> <<>>]
  ELSE LET w == ResolveWitnesses(proof, beacon) IN
       IF w.threw
       THEN [threw |-> TRUE, err |-> "Error", value |-> FALSE,
             witnesses |-> <<>>, calls |-> w.calls]
       ELSE [threw |-> FALSE, err |-> "none",
             value |->
               /\ getIdentifierFromClaimInfo(proof.claimInfo)
                    = replaceAll(proof.identifier, QUOTE, <<>>)
               /\ assertValidSignedClaimLegacy(proof.signatures,
                                               w.witnesses).ok,
             witnesses |-> w.witnesses, calls |-> w.calls]

\* a plausible slip: only the first proof of the array is verified
verifyProofsMutant(proofs, beacon) ==
  IF proofs = <<>> THEN [threw |-> FALSE, err |-> "none", value |-> TRUE]
  ELSE LET r == verifyProofOne(Head(proofs), beacon) IN
       [threw |-> r.threw, err |-> r.err, value |-> r.value]

\* verifyProof of an array: the first proof that is not verified ends the
\* loop with false; an error raised for a proof propagates
RECURSIVE verifyProofs(_, _)
verifyProofs(proofs, beacon) ==
  IF proofs = <<>> THEN [threw |-> FALSE, err |-> "none", value |-> TRUE]
  ELSE LET r == verifyProofOne(Head(proofs), beacon) IN
       IF r.threw THEN [threw |-> TRUE, err |-> r.err, value |-> FALSE]
       ELSE IF ~r.value
       THEN [threw |-> FALSE, err |-> "none", value |-> FALSE]
       ELSE verifyProofs(Tail(proofs), beacon)

\* ------------------------------------------------------------------------
\* Session payloads of the status endpoint
\* ------------------------------------------------------------------------

\* a session id as returned by the session backend
SID == "sid"

\* enum SessionStatus of utils/types.ts
SessionStatusEnum ==
  { "SESSION_INIT", "SESSION_STARTED", "USER_INIT_VERIFICATION",
    "USER_STARTED_VERIFICATION", "PROOF_GENERATION_STARTED",
    "PROOF_GENERATION_SUCCESS", "PROOF_GENERATION_FAILED", "PROOF_SUBMITTED",
    "PROOF_MANUAL_VERIFICATION_SUBMITED" }

\* SessionStatus.<member>: a member the enum lacks evaluates to undefined
SessionStatus(member) ==
  IF member \in SessionStatusEnum THEN member ELSE "undefined"

\* the statusV2 strings the backend sends in the model
Statuses ==
  { "PROOF_GENERATION_STARTED", "PROOF_GENERATION_FAILED", "PROOF_SUBMITTED",
    "PROOF_SUBMISSION_FAILED" }

ManualWitness(id) == [id |-> id, url |-> "manual-verify"]

GoodProof ==
  [isNull |-> FALSE, identifier |-> <<"a">>, claimInfo |-> "ci1",
   signatures |-> <<"0xAa">>, witnesses |-> <<ManualWitness("0xaa")>>]

\* stated identifier differs from the derived one
BadProof ==
  [isNull |-> FALSE, identifier |-> <<"a">>, claimInfo |-> "ci2",
   signatures |-> <<"0xAa">>, witnesses |-> <<ManualWitness("0xaa")>>]

\* witnesses come from the beacon
BeaconProof ==
  [isNull |-> FALSE, identifier |-> <<"a">>, claimInfo |-> "ci1",
   signatures |-> <<"0xAa">>, witnesses |-> <<>>]

NoSigProof ==
  [isNull |-> FALSE, identifier |-> <<"a">>, claimInfo |-> "ci1",
   signatures |-> <<>>, witnesses |-> <<ManualWitness("0xaa")>>]

\* signed, but not by its expected witness
WrongSignerProof ==
  [isNull |-> FALSE, identifier |-> <<"a">>, claimInfo |-> "ci1",
   signatures |-> <<"0xBb">>, witnesses |-> <<ManualWitness("0xaa")>>]

\* a null entry of session.proofs
NullProof ==
  [isNull |-> TRUE, identifier |-> <<>>, claimInfo |-> "ci1",
   signatures |-> <<>>, witnesses |-> <<>>]

\* session.proofs of a status response
Payloads ==
  { <<>>, <<GoodProof>>, <<GoodProof, BadProof>>, <<GoodProof, BeaconProof>>,
    <<NoSigProof>>, <<WrongSignerProof>>, <<NullProof>> }

\* what `await fetchStatusUrl(sessionId)` yields: a rejection, a response
\* without session, or a session with statusV2 and proofs
SessionResponse(s, p) ==
  [threw |-> FALSE, session |-> TRUE, status |-> s, proofs |-> p]

Responses ==
  { [threw |-> TRUE, session |-> FALSE, status |-> "none", proofs |-> <<>>],
    [threw |-> FALSE, session |-> FALSE, status |-> "none", proofs |-> <<>>] }
  \cup { SessionResponse(s, p) : s \in Statuses, p \in {<<>>, <<GoodProof>>} }
  \cup { SessionResponse("PROOF_SUBMITTED", p) : p \in Payloads }

\* ------------------------------------------------------------------------
\* URLs
\* ------------------------------------------------------------------------

\* `${constants.DEFAULT_RECLAIM_CALLBACK_URL}${sessionId}`
DefaultCallbackUrl(sid) == <<"DEFAULT_RECLAIM_CALLBACK_URL", sid>>

CustomUrl == <<"https://app.example/callback">>

\* an unset appCallbackUrl?: string
NoUrl == <<>>

\* getAppCallbackUrl: this.appCallbackUrl || default url of the session
getAppCallbackUrl(url, sid) ==
  IF url # NoUrl THEN url ELSE DefaultCallbackUrl(sid)

\* ------------------------------------------------------------------------
\* State of a ReclaimProofRequest instance and of the JS runtime around it
\* ------------------------------------------------------------------------

VARIABLES
  now,              \* Date.now()
  sessionId,        \* this.sessionId
  appCallbackUrl,   \* this.appCallbackUrl
  lastFailureTime,  \* this.lastFailureTime
  intervals,        \* this.intervals: Map sessionId -> timer handle,
                    \* a set of <<key, handle>> pairs
  timers,           \* handles of the interval timers live in the runtime
  started,          \* number of setInterval calls made by startSession
  ticks,            \* bag of tick bodies suspended at an await
  onSuccessCalls,   \* per startSession invocation: times onSuccess was invoked
  onErrorCalls,     \* per startSession invocation: times onError was invoked
  lastTick,         \* what the latest resumed tick body did
  startResult,      \* outcome of the latest startSession call
  runStart,         \* observer: time of the first PROOF_GENERATION_FAILED
                    \* observation of the current run of consecutive ones
  nonFailureSeen,   \* observer: a non-failure status was observed since the
                    \* failure timer was last started
  vin,              \* input of the pure function under check
  vout              \* its result

vars ==
  << now, sessionId, appCallbackUrl, lastFailureTime, intervals, timers,
     started, ticks, onSuccessCalls, onErrorCalls, lastTick, startResult,
     runStart, nonFailureSeen, vin, vout >>

pollVars ==
  << now, sessionId, appCallbackUrl, lastFailureTime, intervals, timers,
     started, ticks, onSuccessCalls, onErrorCalls, lastTick, startResult,
     runStart, nonFailureSeen >>

Handles == 1..MaxStarts

\* Map operations on this.intervals
MapHas(m, k) == \E e \in m : e[1] = k

MapGet(m, k) == (CHOOSE e \in m : e[1] = k)[2]

MapSet(m, k, v) == {e \in m : e[1] # k} \cup {<<k, v>>}

MapDelete(m, k) == {e \in m : e[1] # k}

\* a tick body that has not resumed yet
NoTick ==
  [h |-> 0, phase |-> "none", threw |-> FALSE, session |-> FALSE,
   status |-> "none", mode |-> "none", proofs |-> <<>>,
   beacon |-> NoBeacon,
   out |-> "none", err |-> "none", arg |-> "none", cleared |-> FALSE,
   escaped |-> FALSE, elapsed |-> Undefined, unset |-> FALSE]

Init ==
  /\ now = 0
  /\ sessionId \in {"", SID}
  /\ appCallbackUrl \in {NoUrl, CustomUrl}
  /\ lastFailureTime = Undefined
  /\ intervals = {}
  /\ timers = {}
  /\ started = 0
  /\ ticks = EmptyBag
  /\ onSuccessCalls = [h \in Handles |-> 0]
  /\ onErrorCalls = [h \in Handles |-> 0]
  /\ lastTick = NoTick
  /\ startResult = "none"
  /\ runStart = Undefined
  /\ nonFailureSeen = FALSE
  /\ vin = <<>>
  /\ vout = <<>>

\* ------------------------------------------------------------------------
\* The tick body, between its awaits
\* ------------------------------------------------------------------------

\* `!this.lastFailureTime`
Falsy(t) == t = Undefined \/ t = 0

\* a plausible slip: the threshold must be exceeded strictly
TimeoutReachedMutant(currentTime, lft) == currentTime - lft > FAILURE_TIMEOUT

\* currentTime - this.lastFailureTime >= this.FAILURE_TIMEOUT
TimeoutReached(currentTime, lft) == currentTime - lft >= FAILURE_TIMEOUT

\* a plausible slip: the failure time is never reset
ResetFailureTimeMutant(status, lft) == lft

\* Reset failure time if status is not PROOF_GENERATION_FAILED
ResetFailureTime(status, lft) ==
  IF status # SessionStatus("PROOF_GENERATION_FAILED") THEN Undefined ELSE lft

\* a plausible slip: success is signalled whatever the status
AfterFetchCustomMutant(status, lft) ==
  IF status = SessionStatus("PROOF_SUBMISSION_FAILED")
  THEN [lft |-> lft, act |-> "throw", err |-> "ProofSubmissionFailedError"]
  ELSE [lft |-> lft, act |-> "success", err |-> "none"]

\* the branch of the tick body for an application-managed callback url
AfterFetchCustom(status, lft) ==
  IF status = SessionStatus("PROOF_SUBMISSION_FAILED")
  THEN [lft |-> lft, act |-> "throw", err |-> "ProofSubmissionFailedError"]
  ELSE IF status = SessionStatus("PROOF_SUBMITTED")
  THEN [lft |-> lft, act |-> "success", err |-> "none"]
  ELSE [lft |-> lft, act |-> "return", err |-> "none"]

\* a plausible slip: the failure time is reset before the response is
\* checked for a session payload
AfterFetchMutant(resp, lft, currentTime, callbackUrl, sid) ==
  IF resp.threw
  THEN [lft |-> lft, act |-> "throw", err |-> "StatusUrlError"]
  ELSE
    LET lft1 == ResetFailureTime(resp.status, lft) IN
    IF ~resp.session
    THEN [lft |-> lft1, act |-> "return", err |-> "none"]
    ELSE IF resp.status = SessionStatus("PROOF_GENERATION_FAILED")
    THEN IF Falsy(lft1)
         THEN [lft |-> currentTime, act |-> "return", err |-> "none"]
         ELSE IF TimeoutReached(currentTime, lft1)
         THEN [lft |-> lft1, act |-> "throw", err |-> "ProviderFailedError"]
         ELSE [lft |-> lft1, act |-> "return", err |-> "none"]
    ELSE IF getAppCallbackUrl(callbackUrl, sid) = DefaultCallbackUrl(sid)
    THEN IF Len(resp.proofs) > 0
         THEN IF resp.proofs[1].isNull
              THEN [lft |-> lft1, act |-> "throw",
                    err |-> "ProofNotFoundError"]
              ELSE [lft |-> lft1, act |-> "verify", err |-> "none"]
         ELSE [lft |-> lft1, act |-> "return", err |-> "none"]
    ELSE AfterFetchCustom(resp.status, lft1)

\* a plausible slip: the proofs of the payload are examined only once the
\* status says they were submitted
AfterFetchSubmittedMutant(resp, lft, currentTime, callbackUrl, sid) ==
  IF resp.threw
  THEN [lft |-> lft, act |-> "throw", err |-> "StatusUrlError"]
  ELSE IF ~resp.session
  THEN [lft |-> lft, act |-> "return", err |-> "none"]
  ELSE
    LET lft1 == ResetFailureTime(resp.status, lft) IN
    IF resp.status = SessionStatus("PROOF_GENERATION_FAILED")
    THEN IF Falsy(lft1)
         THEN [lft |-> currentTime, act |-> "return", err |-> "none"]
         ELSE IF TimeoutReached(currentTime, lft1)
         THEN [lft |-> lft1, act |-> "throw", err |-> "ProviderFailedError"]
         ELSE [lft |-> lft1, act |-> "return", err |-> "none"]
    ELSE IF getAppCallbackUrl(callbackUrl, sid) = DefaultCallbackUrl(sid)
    THEN IF Len(resp.proofs) > 0
            /\ resp.status = SessionStatus("PROOF_SUBMITTED")
         THEN IF resp.proofs[1].isNull
              THEN [lft |-> lft1, act |-> "throw",
                    err |-> "ProofNotFoundError"]
              ELSE [lft |-> lft1, act |-> "verify", err |-> "none"]
         ELSE [lft |-> lft1, act |-> "return", err |-> "none"]
    ELSE AfterFetchCustom(resp.status, lft1)

\* The tick body from the resolution of fetchStatusUrl to its next await,
\* return or throw:  lft is the new lastFailureTime, act what the body does
\* next ("return", "verify": await verifyProof(proofs), "success": onSuccess
\* with the fixed message, "throw": the catch block with err).
AfterFetch(resp, lft, currentTime, callbackUrl, sid) ==
  IF resp.threw
  THEN [lft |-> lft, act |-> "throw", err |-> "StatusUrlError"]
  ELSE IF ~resp.session
  THEN [lft |-> lft, act |-> "return", err |-> "none"]
  ELSE
    LET lft1 == ResetFailureTime(resp.status, lft) IN
    IF resp.status = SessionStatus("PROOF_GENERATION_FAILED")
    THEN IF Falsy(lft1)
         THEN [lft |-> currentTime, act |-> "return", err |-> "none"]
         ELSE IF TimeoutReached(currentTime, lft1)
         THEN [lft |-> lft1, act |-> "throw", err |-> "ProviderFailedError"]
         ELSE [lft |-> lft1, act |-> "return", err |-> "none"]
    ELSE IF getAppCallbackUrl(callbackUrl, sid) = DefaultCallbackUrl(sid)
    THEN IF Len(resp.proofs) > 0
         THEN IF resp.proofs[1].isNull
              THEN [lft |-> lft1, act |-> "throw",
                    err |-> "ProofNotFoundError"]
              ELSE [lft |-> lft1, act |-> "verify", err |-> "none"]
         ELSE [lft |-> lft1, act |-> "return", err |-> "none"]
    ELSE AfterFetchCustom(resp.status, lft1)

\* a plausible slip: the boolean verifyProof returns is not looked at
AfterVerifyMutant(proofs, beacon) ==
  LET v == verifyProofs(proofs, beacon) IN
  IF v.threw THEN v.err ELSE "none"

\* The tick body from the resolution of verifyProof(proofs): the error
\* thrown into the catch block, or "none" when onSuccess is reached
AfterVerify(proofs, beacon) ==
  LET v == verifyProofs(proofs, beacon) IN
  IF v.threw THEN v.err
  ELSE IF ~v.value THEN "ProofNotVerifiedError"
  ELSE "none"

\* a plausible slip: onSuccess is handed the list whatever its length
onSuccessArgumentMutant(proofs) == [list |-> TRUE, items |-> proofs]

\* what the tick body hands to onSuccess after verifyProof(proofs):
\* proofs[0] itself when proofs.length === 1 (list is FALSE, items holds
\* that one proof), the array proofs otherwise
onSuccessArgument(proofs) ==
  IF Len(proofs) = 1
  THEN [list |-> FALSE, items |-> << proofs[1] >>]
  ELSE [list |-> TRUE, items |-> proofs]

\* a plausible slip: the entry leaves the map but the timer is not cleared
clearIntervalMutant(sid, m, tm) ==
  IF sid # "" /\ MapHas(m, sid)
  THEN [intervals |-> MapDelete(m, sid), timers |-> tm]
  ELSE [intervals |-> m, timers |-> tm]

\* private clearInterval(): clears the handle registered for the session id
clearInterval(sid, m, tm) ==
  IF sid # "" /\ MapHas(m, sid)
  THEN [intervals |-> MapDelete(m, sid), timers |-> tm \ {MapGet(m, sid)}]
  ELSE [intervals |-> m, timers |-> tm]

\* End of a tick body that reached onSuccess (err = "none") or threw err:
\*   try { ...; onSuccess(..); this.clearInterval() }
\*   catch (e) { onError(e); this.clearInterval() }
\* sThrows / eThrows: the caller's onSuccess / onError raises.
Outcome(err, sThrows, eThrows) ==
  LET success == err = "none"
      caught  == IF success THEN (IF sThrows THEN "CallbackError" ELSE "none")
                 ELSE err
  IN [success |-> success,
      error   |-> caught,
      cleared |-> IF caught = "none" THEN TRUE ELSE ~eThrows,
      escaped |-> caught # "none" /\ eThrows]

Sat(n) == IF n < MaxCount THEN n + 1 ELSE n

\* the effect of Outcome on the callbacks' counters, the map and the timers
Finish(h, o) ==
  LET c == clearInterval(sessionId, intervals, timers) IN
  /\ onSuccessCalls' =
       IF o.success THEN [onSuccessCalls EXCEPT ![h] = Sat(@)]
       ELSE onSuccessCalls
  /\ onErrorCalls' =
       IF o.error # "none" THEN [onErrorCalls EXCEPT ![h] = Sat(@)]
       ELSE onErrorCalls
  /\ intervals' = IF o.cleared THEN c.intervals ELSE intervals
  /\ timers' = IF o.cleared THEN c.timers ELSE timers

Mode(url, sid) ==
  IF getAppCallbackUrl(url, sid) = DefaultCallbackUrl(sid)
  THEN "default" ELSE "custom"

\* ------------------------------------------------------------------------
\* Actions
\* ------------------------------------------------------------------------

FetchTick(h) == [h |-> h, pc |-> "fetch", proofs |-> <<>>]

VerifyTick(h, proofs) == [h |-> h, pc |-> "verify", proofs |-> proofs]

\* scheduleIntervalEndingTask(sessionId, intervals, onError): the task it
\* schedules does not run within the horizon of the model; the map it is
\* handed is left as it is
scheduleIntervalEndingTask(m) == m

\* a plausible slip: the interval is created before the session id is
\* looked at
StartSessionMutant(maxStarts) ==
  /\ started < maxStarts
  /\ lastTick' = NoTick
  /\ startResult' =
       IF sessionId = "" THEN "SessionNotStartedError" ELSE "started"
  /\ started' = started + 1
  /\ timers' = timers \cup {started + 1}
  /\ intervals' = IF sessionId = "" THEN intervals
                  ELSE MapSet(intervals, sessionId, started + 1)
  /\ UNCHANGED << now, sessionId, appCallbackUrl, lastFailureTime, ticks,
                  onSuccessCalls, onErrorCalls, runStart, nonFailureSeen,
                  vin, vout >>

\* startSession({onSuccess, onError}), at most maxStarts times
StartSession(maxStarts) ==
  /\ started < maxStarts
  /\ lastTick' = NoTick
  /\ IF sessionId = ""
     THEN /\ startResult' = "SessionNotStartedError"
          /\ UNCHANGED << intervals, timers, started >>
     ELSE /\ startResult' = "started"
          /\ started' = started + 1
          /\ timers' = timers \cup {started + 1}
          /\ intervals' =
               scheduleIntervalEndingTask(
                 MapSet(intervals, sessionId, started + 1))
  /\ UNCHANGED << now, sessionId, appCallbackUrl, lastFailureTime, ticks,
                  onSuccessCalls, onErrorCalls, runStart, nonFailureSeen,
                  vin, vout >>

\* setAppCallbackUrl(url) with a well-formed url
SetAppCallbackUrl(url) ==
  /\ appCallbackUrl # url
  /\ appCallbackUrl' = url
  /\ lastTick' = NoTick
  /\ UNCHANGED << now, sessionId, lastFailureTime, intervals, timers, started,
                  ticks, onSuccessCalls, onErrorCalls, startResult, runStart,
                  nonFailureSeen, vin, vout >>

\* One interval period passes: every live interval timer fires and its
\* callback runs up to `await fetchStatusUrl(this.sessionId)`.  At most
\* maxFlight tick bodies are suspended at a time.
Advance(maxAdvances, maxFlight) ==
  /\ now < maxAdvances * POLL_INTERVAL
  /\ BagCardinality(ticks) + Cardinality(timers) <= maxFlight
  /\ now' = now + POLL_INTERVAL
  /\ ticks' = ticks (+) SetToBag({FetchTick(h) : h \in timers})
  /\ lastTick' = NoTick
  /\ UNCHANGED << sessionId, appCallbackUrl, lastFailureTime, intervals,
                  timers, started, onSuccessCalls, onErrorCalls, startResult,
                  runStart, nonFailureSeen, vin, vout >>

\* the observers, updated at an observation of a session payload
ObserveStatus(resp) ==
  /\ runStart' =
       IF ~resp.session THEN runStart
       ELSE IF resp.status = "PROOF_GENERATION_FAILED"
       THEN (IF runStart = Undefined THEN now ELSE runStart)
       ELSE Undefined
  /\ nonFailureSeen' =
       IF resp.session /\ resp.status # "PROOF_GENERATION_FAILED" THEN TRUE
       ELSE IF lastFailureTime' # Undefined /\ lastFailureTime = Undefined
       THEN FALSE
       ELSE nonFailureSeen

\* The caller's callbacks: s / e tell whether onSuccess / onError raises.
\* Only the callbacks a tick body with error err invokes are enumerated.
Callbacks(invokes, err) ==
  { c \in [s : BOOLEAN, e : BOOLEAN] :
      /\ c.s => (invokes /\ err = "none")
      /\ c.e => (invokes /\ (err # "none" \/ c.s)) }

ReturningCallbacks(invokes, err) == { [s |-> FALSE, e |-> FALSE] }

\* fetchStatusUrl of tick t settles with resp and the body runs on
FetchDone(t, resp, cb) ==
  /\ t \in BagToSet(ticks)
  /\ t.pc = "fetch"
  /\ LET r == AfterFetch(resp, lastFailureTime, now, appCallbackUrl, sessionId)
         o == Outcome(r.err, cb.s, cb.e)
         ended == r.act \in {"success", "throw"}
         mode == IF resp.session
                    /\ resp.status # SessionStatus("PROOF_GENERATION_FAILED")
                 THEN Mode(appCallbackUrl, sessionId) ELSE "none"
     IN
     /\ lastFailureTime' = r.lft
     /\ ticks' = IF r.act = "verify"
                 THEN (ticks (-) SetToBag({t}))
                        (+) SetToBag({VerifyTick(t.h, resp.proofs)})
                 ELSE ticks (-) SetToBag({t})
     /\ IF ended THEN Finish(t.h, o)
        ELSE UNCHANGED << onSuccessCalls, onErrorCalls, intervals, timers >>
     /\ lastTick' =
          [h |-> t.h, phase |-> "fetch", threw |-> resp.threw,
           session |-> resp.session, status |-> resp.status, mode |-> mode,
           proofs |-> resp.proofs, beacon |-> NoBeacon,
           out |-> IF r.act = "verify" THEN "await"
                   ELSE IF r.act = "return" THEN "return"
                   ELSE IF o.success THEN "success" ELSE "error",
           err |-> IF ended THEN o.error ELSE "none",
           arg |-> IF ended /\ o.success THEN "message" ELSE "none",
           cleared |-> ended /\ o.cleared,
           escaped |-> ended /\ o.escaped,
           elapsed |-> IF resp.session /\ runStart # Undefined
                          /\ resp.status = "PROOF_GENERATION_FAILED"
                       THEN now - runStart ELSE Undefined,
           unset |-> lastFailureTime # Undefined /\ r.lft = Undefined]
  /\ ObserveStatus(resp)
  /\ UNCHANGED << now, sessionId, appCallbackUrl, started, startResult,
                  vin, vout >>

\* the callbacks a tick body invokes after fetchStatusUrl settled with resp
FetchCallbacks(resp) ==
  LET r == AfterFetch(resp, lastFailureTime, now, appCallbackUrl, sessionId)
  IN Callbacks(r.act \in {"success", "throw"}, r.err)

\* verifyProof(proofs) of tick t settles, the beacon being as given
VerifyDone(t, beacon, cb) ==
  /\ t \in BagToSet(ticks)
  /\ t.pc = "verify"
  /\ LET o == Outcome(AfterVerify(t.proofs, beacon), cb.s, cb.e) IN
     /\ ticks' = ticks (-) SetToBag({t})
     /\ Finish(t.h, o)
     /\ lastTick' =
          [h |-> t.h, phase |-> "verify", threw |-> FALSE, session |-> TRUE,
           status |-> "none", mode |-> "default", proofs |-> t.proofs,
           beacon |-> beacon,
           out |-> IF o.success THEN "success" ELSE "error",
           err |-> o.error,
           arg |-> IF ~o.success THEN "none"
                   ELSE IF onSuccessArgument(t.proofs).list THEN "list"
                   ELSE "proof",
           cleared |-> o.cleared, escaped |-> o.escaped,
           elapsed |-> Undefined, unset |-> FALSE]
  /\ UNCHANGED << now, sessionId, appCallbackUrl, lastFailureTime, started,
                  startResult, runStart, nonFailureSeen, vin, vout >>

\* ------------------------------------------------------------------------
\* Spec: the polling state machine with several startSession calls, any
\* latency of the status fetch and of the verification, callbacks that
\* return
\* ------------------------------------------------------------------------

StartSessions == StartSession(MaxStarts)

AdvanceShort == Advance(ShortAdvances, MaxInFlight)

SetUrl ==
  \E url \in {CustomUrl, DefaultCallbackUrl(sessionId)} :
    SetAppCallbackUrl(url)

FetchReturns ==
  \E t \in BagToSet(ticks), resp \in Responses :
    \E cb \in ReturningCallbacks(TRUE, "none") : FetchDone(t, resp, cb)

VerifyReturns ==
  \E t \in BagToSet(ticks), b \in PollBeacons :
    \E cb \in ReturningCallbacks(TRUE, "none") : VerifyDone(t, b, cb)

Next ==
  \/ StartSessions
  \/ AdvanceShort
  \/ SetUrl
  \/ FetchReturns
  \/ VerifyReturns

Spec == Init /\ [][Next]_vars

\* ------------------------------------------------------------------------
\* SpecRun: one polling run (a single startSession call) over the whole
\* failure-timeout window, any latency, the callback url set at any time,
\* callbacks that return
\* ------------------------------------------------------------------------

StartOnce == StartSession(1)

AdvanceLong == Advance(MaxAdvances, MaxInFlight)

NextRun ==
  \/ StartOnce
  \/ AdvanceLong
  \/ SetUrl
  \/ FetchReturns
  \/ VerifyReturns

SpecRun == Init /\ [][NextRun]_vars

\* ------------------------------------------------------------------------
\* SpecCallbacks: one polling run whose callbacks may raise
\* ------------------------------------------------------------------------

FetchSettles ==
  \E t \in BagToSet(ticks), resp \in Responses :
    \E cb \in FetchCallbacks(resp) : FetchDone(t, resp, cb)

VerifySettles ==
  \E t \in BagToSet(ticks), b \in PollBeacons :
    \E cb \in Callbacks(TRUE, AfterVerify(t.proofs, b)) : VerifyDone(t, b, cb)

NextCallbacks ==
  \/ StartOnce
  \/ AdvanceShort
  \/ FetchSettles
  \/ VerifySettles

SpecCallbacks == Init /\ [][NextCallbacks]_vars

\* ------------------------------------------------------------------------
\* SpecFailureRun: the failure-timeout scenario.  One polling run in which
\* every status fetch settles before the next interval period and carries
\* PROOF_GENERATION_FAILED; the callbacks return.
\* ------------------------------------------------------------------------

\* the wall clock moves on once the tick of the period has run
AdvanceIdle == Advance(MaxAdvances, 1)

FetchFailed ==
  \E t \in BagToSet(ticks), p \in {<<>>, <<GoodProof>>} :
    \E cb \in ReturningCallbacks(TRUE, "none") :
      FetchDone(t, SessionResponse("PROOF_GENERATION_FAILED", p), cb)

NextFailureRun ==
  \/ StartOnce
  \/ AdvanceIdle
  \/ FetchFailed

SpecFailureRun == Init /\ [][NextFailureRun]_vars

\* ------------------------------------------------------------------------
\* SpecRestart: the failure-timeout scenario with a further startSession
\* call on the same instance
\* ------------------------------------------------------------------------

SpecRestart ==
  Init /\ [][\/ StartSessions
             \/ AdvanceIdle
             \/ FetchFailed]_vars

\* ------------------------------------------------------------------------
\* SpecQuorum: assertValidSignedClaim applied to bounded inputs
\* ------------------------------------------------------------------------

SeqsUpTo(S, n) == UNION { [1..k -> S] : k \in 0..n }

\* expected witness addresses: lower-case ones, and one in checksum case
ExpectedAddrs == {"0xaa", "0xbb", "0xAa"}

QuorumInputs ==
  [signatures : SeqsUpTo(ChecksumAddrs \cup {Malformed}, MaxSigs),
   expected : SeqsUpTo(ExpectedAddrs, MaxExpected)]

NoResult == [ok |-> FALSE, err |-> "none", named |-> {}]

IdleInit ==
  /\ now = 0
  /\ sessionId = SID
  /\ appCallbackUrl = NoUrl
  /\ lastFailureTime = Undefined
  /\ intervals = {}
  /\ timers = {}
  /\ started = 0
  /\ ticks = EmptyBag
  /\ onSuccessCalls = [h \in Handles |-> 0]
  /\ onErrorCalls = [h \in Handles |-> 0]
  /\ lastTick = NoTick
  /\ startResult = "none"
  /\ runStart = Undefined
  /\ nonFailureSeen = FALSE

InitQuorum ==
  /\ IdleInit
  /\ vin \in QuorumInputs
  /\ vout = [done |-> FALSE, new |-> NoResult, legacy |-> NoResult]

ApplyQuorum ==
  /\ ~vout.done
  /\ vout' =
       [done |-> TRUE,
        new |-> assertValidSignedClaim(vin.signatures, vin.expected),
        legacy |-> assertValidSignedClaimLegacy(vin.signatures, vin.expected)]
  /\ UNCHANGED << vin, pollVars >>

SpecQuorum == InitQuorum /\ [][ApplyQuorum]_vars

\* ------------------------------------------------------------------------
\* SpecVerify: verifyProof / verifySignedProof applied to bounded proofs
\* under every beacon environment
\* ------------------------------------------------------------------------

BeaconWitness(id) == [id |-> id, url |-> "https://witness.example"]

WitnessLists ==
  { <<>>,
    <<ManualWitness("0xaa")>>,
    <<ManualWitness("0xAa")>>,
    <<BeaconWitness("0xaa")>>,
    <<ManualWitness("0xaa"), BeaconWitness("0xbb")>>,
    <<BeaconWitness("0xaa"), ManualWitness("0xbb")>> }

VerifyInputs ==
  [proof : [isNull : {FALSE}, identifier : Identifiers,
            claimInfo : ClaimInfos,
            signatures : SeqsUpTo({"0xAa", "0xBb", Malformed}, MaxProofSigs),
            witnesses : WitnessLists],
   beacon : Beacons]

NoVerdict ==
  [threw |-> FALSE, err |-> "none", value |-> FALSE, witnesses |-> <<>>,
   calls |-> <<>>]

InitVerify ==
  /\ IdleInit
  /\ vin \in VerifyInputs
  /\ vout = [done |-> FALSE, new |-> NoVerdict, legacy |-> NoVerdict]

ApplyVerify ==
  /\ ~vout.done
  /\ vout' = [done |-> TRUE,
              new |-> verifyProofOne(vin.proof, vin.beacon),
              legacy |-> verifySignedProof(vin.proof, vin.beacon)]
  /\ UNCHANGED << vin, pollVars >>

SpecVerify == InitVerify /\ [][ApplyVerify]_vars

\* ------------------------------------------------------------------------
\* The request builder: JavaScript values
\* ------------------------------------------------------------------------

\* a JavaScript value: its type tag and, where it has one, its content (v of
\* a string, b of a boolean, o of an object)
Str(x) == [t |-> "string", v |-> x]

UndefinedValue == [t |-> "undefined"]

NullValue == [t |-> "null"]

\* a number, standing for every value that is neither nullish nor a string
NumberValue == [t |-> "number"]

Bool(b) == [t |-> "boolean", b |-> b]

Obj(fields) == [t |-> "object", o |-> fields]

\* object.key: undefined when the object has no such property, or is no
\* object
Property(object, key) ==
  IF object.t = "object" /\ key \in DOMAIN object.o
  THEN object.o[key]
  ELSE UndefinedValue

\* the properties of an object literal that are given a value
Present(fields) ==
  [k \in {key \in DOMAIN fields : fields[key].t # "undefined"} |-> fields[k]]

IsString(x) == x.t = "string"

\* x == null
IsNullish(x) == x.t \in {"undefined", "null"}

\* String.prototype.trim: "" and "  " are the blank strings of the model
trim(x) == IF x \in {"", "  "} THEN "" ELSE x

\* !x for the values of the model: undefined, null, '' and false are falsy
IsFalsy(x) ==
  \/ IsNullish(x)
  \/ (IsString(x) /\ x.v = "")
  \/ (x.t = "boolean" /\ ~x.b)

\* ------------------------------------------------------------------------
\* The request builder: validationUtils
\* ------------------------------------------------------------------------

\* the result of a call that returns a value or raises err with inner cause
Returned(value) ==
  [threw |-> FALSE, err |-> "none", inner |-> "none", value |-> value]

Raised(err, inner) ==
  [threw |-> TRUE, err |-> err, inner |-> inner, value |-> UndefinedValue]

\* validateFunctionParams for one parameter: TRUE when it raises
\* InvalidParamError
ParamInvalid(input, isString) ==
  \/ IsNullish(input)
  \/ (isString /\ ~IsString(input))
  \/ (isString /\ trim(input.v) = "")

\* validateFunctionParams(params, functionName): params is a sequence of
\* <<input, isString>>
validateFunctionParams(params) ==
  IF \E i \in 1..Len(params) : ParamInvalid(params[i][1], params[i][2])
  THEN Raised("InvalidParamError", "none")
  ELSE Returned(UndefinedValue)

\* the strings `new URL(url)` accepts
ValidUrls == {"https://app.example/callback", "https://app.example/redirect"}

\* takes every string for a url
validateURLMutant(url) ==
  IF IsString(url)
  THEN Returned(UndefinedValue)
  ELSE Raised("InvalidParamError", "TypeError")

\* validateURL(url, functionName)
validateURL(url) ==
  IF IsString(url) /\ url.v \in ValidUrls
  THEN Returned(UndefinedValue)
  ELSE Raised("InvalidParamError", "TypeError")

\* validateContext(context)
validateContext(context) ==
  IF IsFalsy(Property(context, "contextAddress"))
     \/ IsFalsy(Property(context, "contextMessage"))
  THEN Raised("InvalidParamError", "none")
  ELSE validateFunctionParams(
         << <<Property(context, "contextAddress"), TRUE>>,
            <<Property(context, "contextMessage"), TRUE>> >>)

\* validateParameters(parameters): an object all of whose values are strings
validateParameters(parameters) ==
  IF parameters.t # "object"
     \/ \E key \in DOMAIN parameters.o : ~IsString(parameters.o[key])
  THEN Raised("InvalidParamError", "none")
  ELSE Returned(UndefinedValue)

\* ------------------------------------------------------------------------
\* The request builder: the application's signature
\* ------------------------------------------------------------------------

\* A signature string is modelled by what it signs: the signer's address and
\* the {providerId, timestamp} message; every other string is not a
\* well-formed signature (hexlify/verifyMessage throws on it).
SignedMessage(signature) ==
  CASE signature = "sigAa_p1_t1" ->
         [signer |-> "0xAa", providerId |-> "p1", timestamp |-> "t1"]
    [] signature = "sigBb_p1_t1" ->
         [signer |-> "0xBb", providerId |-> "p1", timestamp |-> "t1"]
    [] signature = "sigAa_p1_t2" ->
         [signer |-> "0xAa", providerId |-> "p1", timestamp |-> "t2"]
    [] signature = "sigBb_p1_t2" ->
         [signer |-> "0xBb", providerId |-> "p1", timestamp |-> "t2"]

WellFormedSignatures ==
  {"sigAa_p1_t1", "sigBb_p1_t1", "sigAa_p1_t2", "sigBb_p1_t2"}

\* the address verifyMessage recovers from a well-formed signature checked
\* against another message: an address that is nobody's
StrayAddress == "0xDd"

\* ethers.utils.verifyMessage(hash of canonicalize({providerId, timestamp}),
\* hexlify(signature))
verifyMessage(providerId, timestamp, signature) ==
  IF ~IsString(signature) \/ signature.v \notin WellFormedSignatures
  THEN Raised("Error", "none")
  ELSE IF /\ IsString(providerId)
          /\ IsString(timestamp)
          /\ SignedMessage(signature.v).providerId = providerId.v
          /\ SignedMessage(signature.v).timestamp = timestamp.v
  THEN Returned(Str(SignedMessage(signature.v).signer))
  ELSE Returned(Str(StrayAddress))

\* ethers.utils.getAddress: the checksummed form of an address, raising on
\* anything that is not an address
getAddress(address) ==
  IF IsString(address)
     /\ \E c \in ChecksumAddrs \cup {StrayAddress} :
          toLowerCase(c) = toLowerCase(address.v)
  THEN Returned(Str(CHOOSE c \in ChecksumAddrs \cup {StrayAddress} :
                      toLowerCase(c) = toLowerCase(address.v)))
  ELSE Raised("Error", "none")

\* accepts every well-formed signature, whoever signed it
validateSignatureMutant(providerId, signature, applicationId, timestamp) ==
  IF verifyMessage(providerId, timestamp, signature).threw
  THEN Raised("InvalidSignatureError", "none")
  ELSE Returned(UndefinedValue)

\* validateSignature(providerId, signature, applicationId, timestamp)
validateSignature(providerId, signature, applicationId, timestamp) ==
  LET recovered == verifyMessage(providerId, timestamp, signature)
      appId == Str(toLowerCase(recovered.value.v))
  IN  IF recovered.threw
      THEN Raised("InvalidSignatureError", "none")
      ELSE IF getAddress(applicationId).threw
      THEN Raised("InvalidSignatureError", "none")
      ELSE IF getAddress(appId).value # getAddress(applicationId).value
      THEN Raised("InvalidSignatureError", "none")
      ELSE Returned(UndefinedValue)

\* ------------------------------------------------------------------------
\* The request builder: getRequestUrl
\* ------------------------------------------------------------------------

\* the link built around a template: a string whose content is the kind of
\* link and the template it embeds
Link(kind, template) == [t |-> "string", kind |-> kind, template |-> template]

\* ReclaimProofRequest.getAppCallbackUrl on the instance req
RequestAppCallbackUrl(req) ==
  IF validateFunctionParams(<< <<req.sessionId, TRUE>> >>).threw
  THEN Raised("GetAppCallbackUrlError", "InvalidParamError")
  ELSE IF IsFalsy(req.appCallbackUrl)
  THEN Returned(Link("DEFAULT_RECLAIM_CALLBACK_URL", req.sessionId))
  ELSE Returned(req.appCallbackUrl)

\* ReclaimProofRequest.getStatusUrl on the instance req
RequestStatusUrl(req) ==
  IF validateFunctionParams(<< <<req.sessionId, TRUE>> >>).threw
  THEN Raised("GetStatusUrlError", "InvalidParamError")
  ELSE Returned(Link("DEFAULT_RECLAIM_STATUS_URL", req.sessionId))

\* x ?? fallback
Coalesce(x, fallback) == IF IsNullish(x) THEN fallback ELSE x

\* the templateData object getRequestUrl builds
TemplateDataOf(req, callbackUrl) ==
  [sessionId |-> req.sessionId,
   providerId |-> req.providerId,
   applicationId |-> req.applicationId,
   signature |-> req.signature,
   timestamp |-> req.timeStamp,
   callbackUrl |-> callbackUrl,
   context |-> req.context,
   parameters |-> req.parameters,
   redirectUrl |-> Coalesce(req.redirectUrl, Str("")),
   acceptAiProviders |->
     Coalesce(Property(req.options, "acceptAiProviders"), Bool(FALSE)),
   sdkVersion |-> req.sdkVersion]

\* what the link shortener's endpoint does with a request
ShortenerOutcomes ==
  {"rejects", "notOk", "shortUrl", "noShortUrl", "noResult"}

\* getShortenedUrl(url): the original url when the request fails or is
\* answered with a non-OK response, res.result.shortUrl otherwise
getShortenedUrl(url, shortener) ==
  CASE shortener = "rejects" -> url
    [] shortener = "notOk" -> url
    [] shortener = "shortUrl" -> Str("https://rclm.link/short")
    [] shortener = "noShortUrl" -> UndefinedValue
    [] shortener = "noResult" -> url

\* createLinkWithTemplateData(templateData)
createLinkWithTemplateData(templateData, shortener) ==
  getShortenedUrl(Link("RECLAIM_SHARE_URL", templateData), shortener)

\* the result of getRequestUrl with the remote calls it made, in order
RequestUrlResult(result, calls) ==
  [threw |-> result.threw, err |-> result.err, inner |-> result.inner,
   value |-> result.value, calls |-> calls]

\* ReclaimProofRequest.getRequestUrl on the instance req; env says whether
\* updateSession succeeds, what the shortener does and Platform.OS
getRequestUrl(req, env) ==
  LET valid == validateSignature(req.providerId, req.signature,
                                 req.applicationId, req.timeStamp)
      callback == RequestAppCallbackUrl(req)
      templateData == TemplateDataOf(req, callback.value)
  IN  IF IsFalsy(req.signature)
      THEN RequestUrlResult(Raised("SignatureNotFoundError", "none"), <<>>)
      ELSE IF valid.threw
      THEN RequestUrlResult(valid, <<>>)
      ELSE IF callback.threw
      THEN RequestUrlResult(callback, <<>>)
      ELSE IF ~env.updateOk
      THEN RequestUrlResult(Raised("UpdateSessionError", "none"),
                            <<"updateSession">>)
      ELSE IF ~IsFalsy(Property(req.options, "useAppClip"))
      THEN IF env.platform # "ios"
           THEN RequestUrlResult(Returned(Link("instantApp", templateData)),
                                 <<"updateSession">>)
           ELSE RequestUrlResult(Returned(Link("appClip", templateData)),
                                 <<"updateSession">>)
      ELSE RequestUrlResult(
             Returned(createLinkWithTemplateData(templateData,
                                                 env.shortener)),
             <<"updateSession", "shortener">>)

\* ------------------------------------------------------------------------
\* Specification of getRequestUrl over instances and environments
\* ------------------------------------------------------------------------

\* an options object: each field is present or undefined
Options(log, acceptAiProviders, useAppClip) ==
  Obj(Present([log |-> log, acceptAiProviders |-> acceptAiProviders,
               useAppClip |-> useAppClip]))

\* a context object
Context(contextAddress, contextMessage) ==
  Obj([contextAddress |-> contextAddress, contextMessage |-> contextMessage])

\* the context a new instance starts with
DefaultContext == Context(Str("0x0"), Str("sample message"))

\* the parameters objects of the model: none set, or one string parameter
NoParams == Obj(Present([param |-> UndefinedValue]))

SomeParams == Obj([param |-> Str("value")])

\* 'rn-' + the package's version
SdkVersion == Str("rn-version")

\* the instances getRequestUrl is applied to
UrlRequests ==
  [applicationId : {Str("0xAa"), Str("0xaa"), Str("0xBb"), Str("app")},
   providerId : {Str("p1")},
   sessionId : {Str("s1"), Str("")},
   context : {DefaultContext},
   parameters : {NoParams},
   appCallbackUrl : {UndefinedValue, Str("https://app.example/callback")},
   signature : {UndefinedValue, Str(""), Str("sigAa_p1_t1"),
                Str("sigBb_p1_t1"), Str("garbage")},
   redirectUrl : {UndefinedValue},
   timeStamp : {Str("t1"), Str("t2")},
   options : {UndefinedValue,
              Options(UndefinedValue, UndefinedValue, Bool(TRUE)),
              Options(UndefinedValue, Bool(TRUE), Bool(FALSE))},
   sdkVersion : {SdkVersion}]

InitRequestUrl ==
  /\ IdleInit
  /\ vin \in [req : UrlRequests,
             env : [updateOk : BOOLEAN, shortener : ShortenerOutcomes,
                    platform : {"ios", "android"}]]
  /\ vout = [done |-> FALSE,
             result |-> RequestUrlResult(Returned(UndefinedValue), <<>>)]

ApplyRequestUrl ==
  /\ ~vout.done
  /\ vout' = [done |-> TRUE, result |-> getRequestUrl(vin.req, vin.env)]
  /\ UNCHANGED << vin, pollVars >>

SpecRequestUrl == InitRequestUrl /\ [][ApplyRequestUrl]_vars

\* ------------------------------------------------------------------------
\* The request builder: init
\* ------------------------------------------------------------------------

\* the application secrets that are private keys, with their addresses
WalletAddress(secret) ==
  CASE secret = "keyAa" -> "0xAa"
    [] secret = "keyBb" -> "0xBb"
    [] OTHER -> "none"

\* ReclaimProofRequest.generateSignature: the wallet of the secret signs
\* {providerId, timestamp}; every failure becomes SignatureGeneratingError
generateSignature(applicationSecret, providerId, timeStamp) ==
  IF WalletAddress(applicationSecret.v) = "none"
  THEN Raised("SignatureGeneratingError", "none")
  ELSE Returned(Str(CHOOSE sig \in WellFormedSignatures :
                      SignedMessage(sig) =
                        [signer |-> WalletAddress(applicationSecret.v),
                         providerId |-> providerId.v,
                         timestamp |-> timeStamp.v]))

\* new ReclaimProofRequest(applicationId, providerId, options) at time date
NewRequest(applicationId, providerId, options, date) ==
  [applicationId |-> applicationId,
   providerId |-> providerId,
   sessionId |-> Str(""),
   context |-> DefaultContext,
   parameters |-> NoParams,
   appCallbackUrl |-> UndefinedValue,
   signature |-> UndefinedValue,
   redirectUrl |-> UndefinedValue,
   timeStamp |-> Str(date),
   options |-> options,
   sdkVersion |-> SdkVersion]

\* validates the options of a request without looking into them
InitValidationMutant(applicationId, appSecret, providerId, options) ==
  validateFunctionParams(<< <<applicationId, TRUE>>, <<providerId, TRUE>>,
                            <<appSecret, TRUE>> >>)

\* the parameter validation of init: the three strings, then every option
\* that is not undefined
InitValidation(applicationId, appSecret, providerId, options) ==
  LET strings ==
        validateFunctionParams(<< <<applicationId, TRUE>>,
                                  <<providerId, TRUE>>,
                                  <<appSecret, TRUE>> >>)
      given(field) ==
        /\ ~IsFalsy(options)
        /\ Property(options, field).t # "undefined"
  IN  IF strings.threw
      THEN strings
      ELSE IF given("acceptAiProviders")
              /\ ParamInvalid(Property(options, "acceptAiProviders"), FALSE)
      THEN Raised("InvalidParamError", "none")
      ELSE IF given("log") /\ ParamInvalid(Property(options, "log"), FALSE)
      THEN Raised("InvalidParamError", "none")
      ELSE IF given("useAppClip")
              /\ ParamInvalid(Property(options, "useAppClip"), FALSE)
      THEN Raised("InvalidParamError", "none")
      ELSE Returned(UndefinedValue)

\* ReclaimProofRequest.init; env gives Date.now() and what initSession does:
\* it raises InitSessionError or returns the session id of the new session
init(applicationId, appSecret, providerId, options, env) ==
  LET checked == InitValidation(applicationId, appSecret, providerId, options)
      instance == NewRequest(applicationId, providerId, options, env.date)
      signature == generateSignature(appSecret, providerId,
                                     instance.timeStamp)
      failed(step, calls) ==
        [threw |-> TRUE, err |-> "InitError", inner |-> step.err,
         value |-> UndefinedValue, calls |-> calls]
  IN  IF checked.threw
      THEN failed(checked, <<>>)
      ELSE IF signature.threw
      THEN failed(signature, <<>>)
      ELSE IF validateFunctionParams(<< <<signature.value, TRUE>> >>).threw
      THEN failed(Raised("SetSignatureError", "InvalidParamError"), <<>>)
      ELSE IF env.session = "rejects"
      THEN failed(Raised("InitSessionError", "none"), <<"initSession">>)
      ELSE [threw |-> FALSE, err |-> "none", inner |-> "none",
            value |-> [instance EXCEPT !.signature = signature.value,
                                       !.sessionId = Str(env.session)],
            calls |-> <<"initSession">>]

\* the calls of init and the environments they run in
InitInputs ==
  [applicationId : {Str("0xAa"), Str(""), NullValue, NumberValue},
   appSecret : {Str("keyAa"), Str("keyBb"), Str("notAKey"), Str("  "),
                UndefinedValue},
   providerId : {Str("p1"), NullValue, Str("")},
   options : {UndefinedValue,
              Options(Bool(TRUE), UndefinedValue, UndefinedValue),
              Options(NullValue, UndefinedValue, UndefinedValue),
              Options(UndefinedValue, NullValue, UndefinedValue),
              Options(UndefinedValue, UndefinedValue, NullValue),
              Options(UndefinedValue, NumberValue, Bool(TRUE))},
   env : [date : {"t1", "t2"}, session : {"s1", "s2", "rejects"}]]

InitOfInit ==
  /\ IdleInit
  /\ vin \in InitInputs
  /\ vout = [done |-> FALSE, result |-> Raised("none", "none")]

ApplyInit ==
  /\ ~vout.done
  /\ vout' = [done |-> TRUE,
              result |-> init(vin.applicationId, vin.appSecret,
                              vin.providerId, vin.options, vin.env)]
  /\ UNCHANGED << vin, pollVars >>

SpecInit == InitOfInit /\ [][ApplyInit]_vars

\* ------------------------------------------------------------------------
\* The request builder: setters and serialization
\* ------------------------------------------------------------------------

\* the outcome of a setter: what it returned or raised, and the instance
\* after the call
SetterResult(result, req) == [result |-> result, req |-> req]

\* ReclaimProofRequest.setAppCallbackUrl(url)
setAppCallbackUrl(req, url) ==
  IF validateURL(url).threw
  THEN SetterResult(validateURL(url), req)
  ELSE SetterResult(Returned(UndefinedValue),
                    [req EXCEPT !.appCallbackUrl = url])

\* stores the url as the callback url as well
setRedirectUrlMutant(req, url) ==
  IF validateURL(url).threw
  THEN SetterResult(validateURL(url), req)
  ELSE SetterResult(Returned(UndefinedValue),
                    [req EXCEPT !.redirectUrl = url, !.appCallbackUrl = url])

\* ReclaimProofRequest.setRedirectUrl(url)
setRedirectUrl(req, url) ==
  IF validateURL(url).threw
  THEN SetterResult(validateURL(url), req)
  ELSE SetterResult(Returned(UndefinedValue),
                    [req EXCEPT !.redirectUrl = url])

\* assigns the context before validating it
addContextMutant(req, address, message) ==
  IF validateFunctionParams(<< <<address, TRUE>>, <<message, TRUE>> >>).threw
  THEN SetterResult(Raised("AddContextError", "InvalidParamError"),
                    [req EXCEPT !.context = Context(address, message)])
  ELSE SetterResult(Returned(UndefinedValue),
                    [req EXCEPT !.context = Context(address, message)])

\* ReclaimProofRequest.addContext(address, message)
addContext(req, address, message) ==
  IF validateFunctionParams(<< <<address, TRUE>>, <<message, TRUE>> >>).threw
  THEN SetterResult(Raised("AddContextError", "InvalidParamError"), req)
  ELSE SetterResult(Returned(UndefinedValue),
                    [req EXCEPT !.context = Context(address, message)])

\* ReclaimProofRequest.setParams(params)
setParams(req, params) ==
  IF validateParameters(params).threw
  THEN SetterResult(Raised("SetParamsError", "InvalidParamError"), req)
  ELSE SetterResult(Returned(UndefinedValue),
                    [req EXCEPT !.parameters = params])

\* a string that is the JSON text of a value; every other string is
\* [t |-> "text"], on which JSON.parse raises SyntaxError
JsonText(value) == [t |-> "json", json |-> value]

\* serializes the instance without its redirect url
toJsonStringMutant(req) ==
  JsonText(Obj(Present([req EXCEPT !.redirectUrl = UndefinedValue])))

\* ReclaimProofRequest.toJsonString: JSON.stringify leaves out every
\* property whose value is undefined, in the instance and in its objects
toJsonString(req) ==
  LET stringify(x) == IF x.t = "object" THEN Obj(Present(x.o)) ELSE x
  IN  JsonText(Obj(Present([key \in DOMAIN req |-> stringify(req[key])])))

\* ReclaimProofRequest.fromJsonString(jsonString), called at time date
fromJsonString(jsonString, date) ==
  LET field(key) == Property(jsonString.json, key)
      instance ==
        [NewRequest(field("applicationId"), field("providerId"),
                    field("options"), date)
           EXCEPT !.sessionId = field("sessionId"),
                  !.context = field("context"),
                  !.parameters = field("parameters"),
                  !.appCallbackUrl = field("appCallbackUrl"),
                  !.redirectUrl = field("redirectUrl"),
                  !.timeStamp = field("timeStamp"),
                  !.signature = field("signature"),
                  !.sdkVersion = field("sdkVersion")]
  IN  IF jsonString.t # "json" \/ IsNullish(jsonString.json)
      THEN Raised("InvalidParamError", "none")
      ELSE IF validateFunctionParams(
                << <<field("applicationId"), TRUE>>,
                   <<field("providerId"), TRUE>>,
                   <<field("signature"), TRUE>>,
                   <<field("sessionId"), TRUE>>,
                   <<field("timeStamp"), TRUE>>,
                   <<field("sdkVersion"), TRUE>> >>).threw
      THEN Raised("InvalidParamError", "none")
      ELSE IF ~IsFalsy(field("redirectUrl"))
              /\ validateURL(field("redirectUrl")).threw
      THEN Raised("InvalidParamError", "none")
      ELSE IF ~IsFalsy(field("appCallbackUrl"))
              /\ validateURL(field("appCallbackUrl")).threw
      THEN Raised("InvalidParamError", "none")
      ELSE IF ~IsFalsy(field("context"))
              /\ validateContext(field("context")).threw
      THEN Raised("InvalidParamError", "none")
      ELSE IF ~IsFalsy(field("parameters"))
              /\ validateParameters(field("parameters")).threw
      THEN Raised("InvalidParamError", "none")
      ELSE Returned(instance)

\* ------------------------------------------------------------------------
\* Specification of an instance from init through its setters (SpecBuilder)
\* ------------------------------------------------------------------------

\* the urls the url setters are called with: valid, invalid, empty, null
UrlArgs ==
  {Str("https://app.example/callback"), Str("https://app.example/redirect"),
   Str("not a url"), Str(""), NullValue}

\* the instances init returns
InitInstances ==
  {init(i.applicationId, i.appSecret, i.providerId, i.options, i.env).value :
     i \in {j \in InitInputs :
              ~init(j.applicationId, j.appSecret, j.providerId, j.options,
                    j.env).threw}}

\* the record of the last call: the operation, its arguments, its outcome
\* and the instance it was called on
LastCall(op, args, result, before) ==
  [op |-> op, args |-> args, result |-> result, before |-> before]

InitBuilder ==
  /\ IdleInit
  /\ vin \in InitInstances
  /\ vout = LastCall("init", <<>>, Returned(UndefinedValue), vin)

CallSetter(op, args, outcome) ==
  /\ vin' = outcome.req
  /\ vout' = LastCall(op, args, outcome.result, vin)
  /\ UNCHANGED pollVars

CallSetAppCallbackUrl ==
  \E url \in UrlArgs :
    CallSetter("setAppCallbackUrl", <<url>>, setAppCallbackUrl(vin, url))

CallSetRedirectUrl ==
  \E url \in UrlArgs :
    CallSetter("setRedirectUrl", <<url>>, setRedirectUrl(vin, url))

CallAddContext ==
  \E address \in {Str("0x1"), Str(""), NullValue},
     message \in {Str("message"), NumberValue} :
    CallSetter("addContext", <<address, message>>,
               addContext(vin, address, message))

CallSetParams ==
  \E params \in {NoParams, SomeParams, Obj([param |-> NumberValue]),
                  NullValue} :
    CallSetter("setParams", <<params>>, setParams(vin, params))

\* fromJsonString(x.toJsonString()) at some later time
CallRoundTrip ==
  \E date \in {"t1", "t2"} :
    /\ vout' = LastCall("roundTrip", <<>>,
                        fromJsonString(toJsonString(vin), date), vin)
    /\ UNCHANGED << vin, pollVars >>

\* x.getRequestUrl() in some environment
CallGetRequestUrl ==
  \E env \in [updateOk : BOOLEAN, shortener : ShortenerOutcomes,
              platform : {"ios", "android"}] :
    /\ vout' = LastCall("getRequestUrl", <<>>, getRequestUrl(vin, env), vin)
    /\ UNCHANGED << vin, pollVars >>

SpecBuilder ==
  InitBuilder /\ [][\/ CallSetAppCallbackUrl
                     \/ CallSetRedirectUrl
                     \/ CallAddContext
                     \/ CallSetParams
                     \/ CallRoundTrip
                     \/ CallGetRequestUrl]_vars

\* ------------------------------------------------------------------------
\* Specification of an instance from init to polling (SpecLifecycle): the
\* caller obtains the request url and starts the session, in any order
\* ------------------------------------------------------------------------

\* init returned the instance for the session the polling state is about
InitLifecycle ==
  /\ IdleInit
  /\ vin \in {init(Str("0xAa"), Str(secret), Str("p1"), UndefinedValue,
                   [date |-> "t1", session |-> sessionId]).value :
                secret \in {"keyAa", "keyBb"}}
  /\ vout = LastCall("init", <<>>, Returned(UndefinedValue), vin)

\* getRequestUrl has returned the request url of the instance
Linked == vout.op = "getRequestUrl" /\ ~vout.result.threw

\* getRequestUrl, called until it has returned a url
ObtainRequestUrl == ~Linked /\ CallGetRequestUrl

SpecLifecycle ==
  InitLifecycle /\ [][\/ ObtainRequestUrl
                       \/ StartOnce
                       \/ AdvanceShort
                       \/ FetchReturns
                       \/ VerifyReturns]_vars

\* ------------------------------------------------------------------------
\* Specification of fromJsonString over transport strings (SpecFromJson)
\* ------------------------------------------------------------------------

\* the transport strings: text that is not JSON, the JSON text null, and
\* JSON objects whose fields are valid, invalid or absent
JsonStrings ==
  {[t |-> "text"], JsonText(NullValue)} \cup
  {JsonText(Obj(Present(fields))) :
     fields \in
       [applicationId : {Str("0xAa"), Str(""), UndefinedValue},
        providerId : {Str("p1")},
        sessionId : {Str("s1"), NumberValue},
        signature : {Str("sigAa_p1_t1"), Str("  ")},
        timeStamp : {Str("t1")},
        sdkVersion : {SdkVersion, UndefinedValue},
        context : {DefaultContext, UndefinedValue, NullValue, Str(""),
                   Obj([contextAddress |-> Str("0x0")])},
        parameters : {SomeParams, UndefinedValue, NullValue,
                      Obj([param |-> NumberValue])},
        appCallbackUrl : {UndefinedValue, Str("https://app.example/callback"),
                          Str("not a url"), Str("")},
        redirectUrl : {UndefinedValue, Str("not a url"), Str("")},
        options : {UndefinedValue,
                   Options(Bool(TRUE), UndefinedValue, UndefinedValue),
                   Options(NullValue, UndefinedValue, UndefinedValue)}]}

InitFromJson ==
  /\ IdleInit
  /\ vin \in JsonStrings
  /\ vout = [done |-> FALSE, result |-> Raised("none", "none")]

ApplyFromJson ==
  /\ ~vout.done
  /\ vout' = [done |-> TRUE, result |-> fromJsonString(vin, "t2")]
  /\ UNCHANGED << vin, pollVars >>

SpecFromJson == InitFromJson /\ [][ApplyFromJson]_vars

\* ------------------------------------------------------------------------
\* The legacy class Reclaim.ProofRequest: buildProofRequest, setSignature,
\* createVerificationRequest and startSession (SpecLegacy)
\* ------------------------------------------------------------------------

\* new Reclaim.ProofRequest(applicationId, options): requestedProofs,
\* signature and template are undefined ("none"); sessionId is
\* options.sessionId or a fresh uuid, a non-empty string in both cases.
\* requestedProofs is held by the kind of link it asks for ("branch", or
\* "manual" for V2Linking / verificationType MANUAL), a signature by
\* whether validateSignature accepts it for the application id.
LegacyRequest ==
  [requestedProofs |-> "none", signature |-> "none", template |-> "none",
   sessionId |-> SID]

\* buildProofRequest(providerId, ..): requestedProofs is assigned before
\* createSession is awaited; every failure becomes BuildProofRequestError.
\* outcome: what the provider lookup and createSession do.
buildProofRequest(req, kind, outcome) ==
  IF outcome = "noProvider"
  THEN [req |-> req, err |-> "BuildProofRequestError"]
  ELSE [req |-> [req EXCEPT !.requestedProofs = kind],
        err |-> IF outcome = "sessionFails" THEN "BuildProofRequestError"
                ELSE "none"]

\* createVerificationRequest(); env.link is what the link service does
\* (getShortenedUrl for a manual request: its short url, the long url when
\* the call fails, undefined when the answer holds no short url;
\* getBranchLink otherwise: the branch url or an Error), env.update what
\* updateSession does.  The instance after the call and the error rethrown.
createVerificationRequest(req, env) ==
  LET link ==
        IF req.requestedProofs = "manual"
        THEN (CASE env.link = "ok" -> Returned(Str("shortLink"))
                [] env.link = "fails" -> Returned(Str("longLink"))
                [] OTHER -> Returned(UndefinedValue))
        ELSE IF env.link = "ok" THEN Returned(Str("branchLink"))
        ELSE Raised("Error", "none")
  IN  IF req.requestedProofs = "none"
      THEN [req |-> req, err |-> "BuildProofRequestError"]
      ELSE IF req.signature = "none"
      THEN [req |-> req, err |-> "SignatureNotFoundError"]
      ELSE IF req.signature = "invalid"
      THEN [req |-> req, err |-> "InvalidSignatureError"]
      ELSE IF link.threw
      THEN [req |-> req, err |-> link.err]
      ELSE [req |-> [req EXCEPT !.template =
                       IF IsString(link.value) THEN link.value.v ELSE "none"],
            err |-> IF env.update = "rejects" THEN "UpdateSessionError"
                    ELSE "none"]

\* startSession({onSuccessCallback, onFailureCallback}) of the legacy class:
\* with a template and a session id it adds the url listener and opens the
\* template, otherwise it raises SessionNotStartedError
startSession(req) ==
  IF req.template # "none" /\ req.sessionId # ""
  THEN [err |-> "none", opened |-> req.template]
  ELSE [err |-> "SessionNotStartedError", opened |-> "none"]

\* vin is the instance; vout the latest call, its error, the url it
\* opened, and whether a createVerificationRequest call has completed
InitLegacy ==
  /\ IdleInit
  /\ vin = LegacyRequest
  /\ vout = [op |-> "new", err |-> "none", opened |-> "none",
             completed |-> FALSE]

CallBuildProofRequest ==
  \E kind \in {"branch", "manual"},
     outcome \in {"ok", "noProvider", "sessionFails"} :
    LET r == buildProofRequest(vin, kind, outcome) IN
    /\ vin' = r.req
    /\ vout' = [vout EXCEPT !.op = "buildProofRequest", !.err = r.err,
                            !.opened = "none"]
    /\ UNCHANGED pollVars

\* setSignature(signature): this.signature = signature
CallSetSignature ==
  \E signature \in {"valid", "invalid"} :
    /\ vin' = [vin EXCEPT !.signature = signature]
    /\ vout' = [vout EXCEPT !.op = "setSignature", !.err = "none",
                            !.opened = "none"]
    /\ UNCHANGED pollVars

CallCreateVerificationRequest ==
  \E env \in [link : {"ok", "fails", "undefined"},
              update : {"ok", "rejects"}] :
    LET r == createVerificationRequest(vin, env) IN
    /\ vin' = r.req
    /\ vout' = [op |-> "createVerificationRequest", err |-> r.err,
                opened |-> "none",
                completed |-> vout.completed \/ r.err = "none"]
    /\ UNCHANGED pollVars

CallStartSession ==
  LET r == startSession(vin) IN
  /\ vout' = [vout EXCEPT !.op = "startSession", !.err = r.err,
                          !.opened = r.opened]
  /\ UNCHANGED << vin, pollVars >>

SpecLegacy ==
  InitLegacy /\ [][\/ CallBuildProofRequest
                   \/ CallSetSignature
                   \/ CallCreateVerificationRequest
                   \/ CallStartSession]_vars

\* ------------------------------------------------------------------------
\* Claims about the polling state machine under concurrency (Spec)
\* ------------------------------------------------------------------------

\* the tick bodies of polling task h that are suspended at an await
TicksInFlight(h) ==
  BagCardinality([t \in {u \in BagToSet(ticks) : u.h = h} |-> ticks[t]])

\* the state right after a tick body delivered onSuccess or onError
TerminalTick == lastTick.out \in {"success", "error"}

\* C1: for every startSession invocation, whatever the responses and the
\* latencies of the status fetch and of the verification, onSuccess and
\* onError are invoked at most once in total.
C1_AtMostOneCallback ==
  \A h \in Handles : onSuccessCalls[h] + onErrorCalls[h] <= 1

\* C4: the ticks of one polling task are strictly sequential: no tick body
\* of a task starts while an earlier tick body of the same task is still
\* awaiting its status fetch or its verification.
C4_TicksSequential ==
  \A h \in Handles : TicksInFlight(h) <= 1

\* C5: after any sequence of startSession calls for one session id at most
\* one interval timer is live, and it is the one recorded in the registry.
C5_OnePollingTask ==
  /\ Cardinality(timers) <= 1
  /\ \A h \in timers : <<sessionId, h>> \in intervals

\* C6: when a tick invokes onSuccess or onError, the interval handle is
\* cleared and its registry entry removed, and nothing of the session is
\* left that could run afterwards: no live timer and no suspended tick.
C6_TornDownAtTerminal ==
  TerminalTick =>
    /\ lastTick.h \notin timers
    /\ ~MapHas(intervals, sessionId)
    /\ timers = {}
    /\ ticks = EmptyBag

\* ------------------------------------------------------------------------
\* Claims about one polling run (SpecRun)
\* ------------------------------------------------------------------------

\* the tick that just resumed observed a session payload with this status
Observed(status) ==
  lastTick.phase = "fetch" /\ lastTick.session /\ lastTick.status = status

ObservedFailure == Observed("PROOF_GENERATION_FAILED")

ObservedNonFailure ==
  /\ lastTick.phase = "fetch"
  /\ lastTick.session
  /\ lastTick.status # "PROOF_GENERATION_FAILED"

\* C2: in default-callback mode onSuccess is invoked only by a tick whose
\* payload carried at least one proof and whose every proof verifyProof
\* accepted; a payload with a proof that fails verification never leads
\* to onSuccess.
C2_SuccessOnlyAfterVerification ==
  (lastTick.out = "success" /\ lastTick.mode = "default") =>
    /\ lastTick.phase = "verify"
    /\ Len(lastTick.proofs) >= 1
    /\ \A i \in 1..Len(lastTick.proofs) :
         LET v == verifyProofOne(lastTick.proofs[i], lastTick.beacon)
         IN ~v.threw /\ v.value

\* C2 happens: onSuccess is delivered for a payload of two verified proofs
C2_Witness ==
  /\ lastTick.out = "success"
  /\ lastTick.mode = "default"
  /\ lastTick.arg = "list"
  /\ Len(lastTick.proofs) = 2

\* C7 (as the code has it): a tick that observes PROOF_GENERATION_FAILED
\* delivers onError(ProviderFailedError) exactly when the time elapsed
\* since the first observation of the current run of consecutive failures
\* is at least FAILURE_TIMEOUT; otherwise it delivers no callback and
\* leaves the polling task running.
C7_TimeoutAtThreshold ==
  ObservedFailure =>
    /\ (lastTick.out = "error" /\ lastTick.err = "ProviderFailedError")
         <=> (lastTick.elapsed # Undefined
                /\ lastTick.elapsed >= FAILURE_TIMEOUT)
    /\ lastTick.err # "ProviderFailedError" =>
         (lastTick.out = "return" /\ ~lastTick.cleared)

\* C7 happens at the boundary: ProviderFailedError is delivered on a tick
\* exactly FAILURE_TIMEOUT after the first failure of the run
C7_Witness ==
  /\ ObservedFailure
  /\ lastTick.err = "ProviderFailedError"
  /\ lastTick.elapsed = FAILURE_TIMEOUT

\* C7 as stated: ProviderFailedError exactly when the elapsed time exceeds
\* FAILURE_TIMEOUT, an elapsed time of exactly 30 000 ms not yet
\* triggering it.
C7_TimeoutOnlyBeyondThreshold ==
  ObservedFailure =>
    ((lastTick.out = "error" /\ lastTick.err = "ProviderFailedError")
       <=> (lastTick.elapsed # Undefined
              /\ lastTick.elapsed > FAILURE_TIMEOUT))

\* C8: after a tick whose session payload carries a status other than
\* PROOF_GENERATION_FAILED the failure timer is unset, and
\* ProviderFailedError is delivered only if no session-carrying tick since
\* the start of the timer observed another status.
C8_NonFailureResetsTimer ==
  /\ ObservedNonFailure => lastFailureTime = Undefined
  /\ lastTick.err = "ProviderFailedError" => ~nonFailureSeen

\* C8 happens: a non-failure tick unsets a failure timer that was running
C8_Witness ==
  /\ ObservedNonFailure
  /\ lastTick.unset
  /\ lastFailureTime = Undefined

\* ------------------------------------------------------------------------
\* Claim about the failure-timeout scenario (SpecFailureRun)
\* ------------------------------------------------------------------------

\* C9: when every tick of a polling run observes PROOF_GENERATION_FAILED,
\* the ticks 3 seconds apart, no callback other than
\* onError(ProviderFailedError) is delivered, and once more than
\* FAILURE_TIMEOUT has passed since the first failure tick onError has
\* fired exactly once, onSuccess not at all, and nothing is left to tick.
C9_FailureRunTerminates ==
  /\ \A h \in Handles : onSuccessCalls[h] = 0
  /\ lastTick.out \in {"success", "error"} =>
       (lastTick.out = "error" /\ lastTick.err = "ProviderFailedError")
  /\ (runStart # Undefined /\ now - runStart > FAILURE_TIMEOUT) =>
       /\ onErrorCalls[1] = 1
       /\ timers = {}
       /\ ticks = EmptyBag
       /\ intervals = {}

\* C9 happens: more than FAILURE_TIMEOUT after the first failure tick the
\* run has ended with its one onError
C9_Witness ==
  /\ runStart # Undefined
  /\ now - runStart > FAILURE_TIMEOUT
  /\ onErrorCalls[1] = 1
  /\ timers = {}

\* ------------------------------------------------------------------------
\* Claim about the quorum check (SpecQuorum)
\* ------------------------------------------------------------------------

\* every signature of the list is one an address can be recovered from
AllRecover(signatures) ==
  \A i \in 1..Len(signatures) : signatures[i] # Malformed

\* the signer addresses recovered from the signatures
Signers(signatures) ==
  { toLowerCase(signatures[i]) : i \in 1..Len(signatures) }

Covered(signatures, expected) ==
  \A j \in 1..Len(expected) : expected[j] \in Signers(signatures)

\* C3: assertValidSignedClaim succeeds if and only if every expected
\* witness address is among the recovered signer addresses (extra signers,
\* the order and repetitions of the signatures changing nothing), in
\* errors.ts and in the legacy utils.ts alike; it never succeeds when a
\* signature cannot be recovered.
C3_QuorumIsCoverage ==
  vout.done =>
    /\ AllRecover(vin.signatures) =>
         /\ vout.new.ok <=> Covered(vin.signatures, vin.expected)
         /\ vout.legacy.ok <=> Covered(vin.signatures, vin.expected)
    /\ ~AllRecover(vin.signatures) => (~vout.new.ok /\ ~vout.legacy.ok)

\* C3 happens: a signature of one address given twice, beside an extra
\* signer, is refused for two expected witnesses
C3_Witness ==
  /\ vout.done
  /\ vin.signatures = <<"0xAa", "0xCc", "0xAa">>
  /\ vin.expected = <<"0xaa", "0xbb">>
  /\ ~vout.new.ok
  /\ vout.new.named = {"0xbb"}

\* ------------------------------------------------------------------------
\* Claim about witness resolution (SpecVerify)
\* ------------------------------------------------------------------------

ManualVerify(proof) ==
  Len(proof.witnesses) > 0 /\ proof.witnesses[1].url = "manual-verify"

\* C10: for a proof whose first witness entry has url "manual-verify",
\* verifyProof and verifySignedProof make no beacon call, take that
\* entry's id as the whole expected witness set whenever they resolve
\* witnesses, and give the same outcome under every beacon.
C10_ManualVerifyNeedsNoBeacon ==
  (vout.done /\ ManualVerify(vin.proof)) =>
    /\ vout.new.calls = <<>>
    /\ vout.legacy.calls = <<>>
    /\ Len(vin.proof.signatures) > 0 =>
         /\ vout.new.witnesses = <<vin.proof.witnesses[1].id>>
         /\ vout.legacy.witnesses = <<vin.proof.witnesses[1].id>>
    /\ \A b \in Beacons :
         /\ verifyProofOne(vin.proof, b).threw = vout.new.threw
         /\ verifyProofOne(vin.proof, b).value = vout.new.value
         /\ verifySignedProof(vin.proof, b).threw = vout.legacy.threw
         /\ verifySignedProof(vin.proof, b).value = vout.legacy.value

\* C10 happens: a manual-verify proof is accepted although no beacon is
\* available
C10_Witness ==
  /\ vout.done
  /\ ManualVerify(vin.proof)
  /\ ~vin.beacon.avail
  /\ vout.new.value
  /\ vout.legacy.value

\* ------------------------------------------------------------------------
\* Claim about the identifier check (SpecVerify)
\* ------------------------------------------------------------------------

\* the stated identifier without its double-quote characters
Unquoted(identifier) == SelectSeq(identifier, LAMBDA ch : ch # QUOTE)

IdentifierMismatch(proof) ==
  Unquoted(proof.identifier) # getIdentifierFromClaimInfo(proof.claimInfo)

C12_CustomSuccessOnSubmitted ==
  (lastTick.out = "success" /\ lastTick.mode = "custom") =>
    /\ lastTick.phase = "fetch"
    /\ lastTick.status = "PROOF_SUBMITTED"
    /\ lastTick.arg = "message"
    /\ lastTick.cleared
    /\ timers = {}
    /\ intervals = {}

\* C12 happens: onSuccess is delivered although the payload holds a proof
\* that verifyProof refuses
C12_Witness ==
  /\ lastTick.out = "success"
  /\ lastTick.mode = "custom"
  /\ lastTick.proofs = <<GoodProof, BadProof>>
  /\ ~verifyProofs(lastTick.proofs, NoBeacon).value

\* C13: with an application-managed callback url, a tick whose payload
\* carries the status PROOF_SUBMISSION_FAILED invokes
\* onError(ProofSubmissionFailedError), not onSuccess, and clears the
\* interval.
C13_SubmissionFailedIsFatal ==
  (Observed("PROOF_SUBMISSION_FAILED") /\ lastTick.mode = "custom") =>
    /\ lastTick.out = "error"
    /\ lastTick.err = "ProofSubmissionFailedError"
    /\ lastTick.cleared

\* ------------------------------------------------------------------------
\* Claims about the errors of a tick (SpecRun)
\* ------------------------------------------------------------------------

\* the proofs of the payload that verifyProof does not accept alone
Refused(proofs, beacon) ==
  { i \in 1..Len(proofs) :
      LET v == verifyProofOne(proofs[i], beacon) IN v.threw \/ ~v.value }

\* the tick that just resumed from verifyProof had a payload that fails
VerificationFailed ==
  lastTick.phase = "verify" /\ Refused(lastTick.proofs, lastTick.beacon) # {}

FirstRefused ==
  LET bad == Refused(lastTick.proofs, lastTick.beacon) IN
  lastTick.proofs[CHOOSE i \in bad : \A j \in bad : i <= j]

C15_RaisingTickEndsPolling ==
  lastTick.out = "error" =>
    /\ lastTick.err # "none"
    /\ ~lastTick.escaped
    /\ lastTick.cleared
    /\ timers = {}

\* C16: startSession on an instance whose session id is empty raises
\* SessionNotStartedError, and such an instance never has an interval, a
\* registry entry, a status fetch or a callback invocation.
C16_EmptySessionIdStartsNothing ==
  /\ startResult = "SessionNotStartedError" <=>
       (sessionId = "" /\ startResult # "none")
  /\ sessionId = "" =>
       /\ timers = {}
       /\ intervals = {}
       /\ ticks = EmptyBag
       /\ lastTick = NoTick
       /\ \A h \in Handles : onSuccessCalls[h] = 0 /\ onErrorCalls[h] = 0

\* C16 happens: startSession raised and interval periods have passed since
C16_Witness ==
  /\ sessionId = ""
  /\ startResult = "SessionNotStartedError"
  /\ now >= 2 * POLL_INTERVAL
  /\ ticks = EmptyBag

\* ------------------------------------------------------------------------
\* Claims about getRequestUrl (SpecRequestUrl)
\* ------------------------------------------------------------------------

\* the instance carries a signature: a non-empty string
SignaturePresent(req) ==
  IsString(req.signature) /\ req.signature.v # ""

\* the signature of the instance is a signature of the application over the
\* instance's {providerId, timeStamp}
SignedByApplication(req) ==
  /\ SignaturePresent(req)
  /\ req.signature.v \in WellFormedSignatures
  /\ SignedMessage(req.signature.v).providerId = req.providerId.v
  /\ SignedMessage(req.signature.v).timestamp = req.timeStamp.v
  /\ toLowerCase(SignedMessage(req.signature.v).signer)
       = toLowerCase(req.applicationId.v)

\* C17: getRequestUrl returns a URL only if a signature is present and the
\* signer recovered from it over {providerId, timeStamp} is applicationId;
\* with no signature it raises SignatureNotFoundError, with a mismatching or
\* malformed one InvalidSignatureError, and in both cases it sends no session
\* update and creates no link.
C17_UrlOnlyForApplicationSignature ==
  vout.done =>
    /\ ~vout.result.threw => SignedByApplication(vin.req)
    /\ ~SignaturePresent(vin.req) =>
         /\ vout.result.threw
         /\ vout.result.err = "SignatureNotFoundError"
    /\ (SignaturePresent(vin.req) /\ ~SignedByApplication(vin.req)) =>
         /\ vout.result.threw
         /\ vout.result.err = "InvalidSignatureError"
    /\ ~SignedByApplication(vin.req) =>
         /\ vout.result.calls = <<>>
         /\ vout.result.value = UndefinedValue

\* a request signed by somebody else was refused, on a backend that would
\* have accepted the session update
C17_Witness ==
  /\ vout.done
  /\ vin.req.signature = Str("sigBb_p1_t1")
  /\ vin.req.applicationId = Str("0xAa")
  /\ vin.req.timeStamp = Str("t1")
  /\ vin.env.updateOk
  /\ vout.result.err = "InvalidSignatureError"
  /\ vout.result.calls = <<>>

\* ------------------------------------------------------------------------
\* Claims about init (SpecInit)
\* ------------------------------------------------------------------------

\* x is not a non-blank string
NotAName(x) == ~IsString(x) \/ x.v \in {"", "  "}

\* a parameter of the call breaks the rule init states for it
InitParamsInvalid ==
  \/ NotAName(vin.applicationId)
  \/ NotAName(vin.providerId)
  \/ NotAName(vin.appSecret)
  \/ /\ vin.options.t = "object"
     /\ \E field \in {"log", "acceptAiProviders", "useAppClip"} :
          Property(vin.options, field) = NullValue

\* the application secret is not a private key
SigningFails == NotAName(vin.appSecret) \/ vin.appSecret.v = "notAKey"

\* C18: init either returns an instance whose signature is set and whose
\* session id is the one the session backend returned, or raises InitError
\* carrying the underlying error; a validation or signing failure registers
\* no remote session and returns no instance.
C18_InitIsAtomic ==
  vout.done =>
    /\ ~vout.result.threw =>
         /\ SignaturePresent(vout.result.value)
         /\ SignedMessage(vout.result.value.signature.v) =
              [signer |-> WalletAddress(vin.appSecret.v),
               providerId |-> vin.providerId.v,
               timestamp |-> vin.env.date]
         /\ vout.result.value.sessionId = Str(vin.env.session)
         /\ vout.result.calls = <<"initSession">>
    /\ vout.result.threw =>
         /\ vout.result.err = "InitError"
         /\ vout.result.inner # "none"
         /\ vout.result.value = UndefinedValue
    /\ (InitParamsInvalid \/ SigningFails) =>
         /\ vout.result.threw
         /\ vout.result.calls = <<>>

\* a call with valid parameters and a secret that is no private key failed
\* without registering a session on a backend that would have accepted it
C18_Witness ==
  /\ vout.done
  /\ ~InitParamsInvalid
  /\ vin.appSecret = Str("notAKey")
  /\ vin.env.session = "s1"
  /\ vout.result.err = "InitError"
  /\ vout.result.inner = "SignatureGeneratingError"
  /\ vout.result.calls = <<>>

\* ------------------------------------------------------------------------
\* Claims about serialization (SpecBuilder, SpecFromJson)
\* ------------------------------------------------------------------------

\* C19: for an instance obtained from init and any successful setter calls,
\* fromJsonString(toJsonString(x)) succeeds and yields an instance with the
\* same fields as x, hence the same getAppCallbackUrl() and getStatusUrl().
C19_RoundTrip ==
  vout.op = "roundTrip" =>
    /\ ~vout.result.threw
    /\ \A key \in {"applicationId", "providerId", "sessionId", "context",
                   "parameters", "signature", "appCallbackUrl",
                   "redirectUrl", "timeStamp", "options", "sdkVersion"} :
         vout.result.value[key] = vin[key]
    /\ RequestAppCallbackUrl(vout.result.value) = RequestAppCallbackUrl(vin)
    /\ RequestStatusUrl(vout.result.value) = RequestStatusUrl(vin)

\* an instance with its own callback and redirect urls, context, parameters
\* and options made the round trip at a time other than its creation
C19_Witness ==
  /\ vout.op = "roundTrip"
  /\ ~vout.result.threw
  /\ vin.appCallbackUrl = Str("https://app.example/callback")
  /\ vin.redirectUrl = Str("https://app.example/redirect")
  /\ vin.context = Context(Str("0x1"), Str("message"))
  /\ vin.parameters = SomeParams
  /\ vin.options = Options(Bool(TRUE), UndefinedValue, UndefinedValue)
  /\ vin.timeStamp = Str("t1")
  /\ vout.result.value.timeStamp = Str("t1")

\* a field of the transport string that is given breaks the rule its setter
\* or init enforces
BreaksRule(blob) ==
  LET field(key) == Property(blob, key)
      given(key) == field(key).t # "undefined"
  IN  \/ \E key \in {"applicationId", "providerId", "sessionId", "signature",
                     "timeStamp", "sdkVersion"} : NotAName(field(key))
      \/ given("appCallbackUrl") /\ validateURL(field("appCallbackUrl")).threw
      \/ given("redirectUrl") /\ validateURL(field("redirectUrl")).threw
      \/ given("context")
           /\ validateFunctionParams(
                << <<Property(field("context"), "contextAddress"), TRUE>>,
                   <<Property(field("context"), "contextMessage"), TRUE>>
                >>).threw
      \/ given("parameters") /\ validateParameters(field("parameters")).threw
      \/ \E option \in {"log", "acceptAiProviders", "useAppClip"} :
           Property(field("options"), option) = NullValue

\* C20: fromJsonString raises InvalidParamError and returns no instance
\* whenever the transport string is not valid JSON or one of its fields
\* breaks the rule the setters and init enforce for it.
C20_EveryFieldValidated ==
  (vout.done /\ (vin.t # "json" \/ BreaksRule(vin.json))) =>
    /\ vout.result.threw
    /\ vout.result.err = "InvalidParamError"
    /\ vout.result.value = UndefinedValue

\* ------------------------------------------------------------------------
\* Claims about the setters (SpecBuilder)
\* ------------------------------------------------------------------------

\* the setter that assigns a field of the instance, "none" for a field no
\* setter assigns
SetterOf(key) ==
  CASE key = "context" -> "addContext"
    [] key = "parameters" -> "setParams"
    [] key = "appCallbackUrl" -> "setAppCallbackUrl"
    [] key = "redirectUrl" -> "setRedirectUrl"
    [] OTHER -> "none"

\* C21: once the signature is set, no operation changes providerId,
\* applicationId, timeStamp, sessionId or the signature; context, parameters,
\* appCallbackUrl and redirectUrl are changed only by a successful call of
\* their own setter.
C21_OnlySettersChangeTheirField ==
  \A key \in DOMAIN vin :
    vin[key] # vout.before[key] =>
      /\ SignaturePresent(vout.before)
      /\ vout.op = SetterOf(key)
      /\ ~vout.result.threw

\* a signed instance whose context a successful addContext has changed,
\* every other field left as it was
C21_Witness ==
  /\ vout.op = "addContext"
  /\ SignaturePresent(vout.before)
  /\ vin.context # vout.before.context
  /\ \A key \in DOMAIN vin \ {"context"} : vin[key] = vout.before[key]

\* C21 as stated: no operation changes context, parameters, appCallbackUrl,
\* redirectUrl, providerId, applicationId, timeStamp or sessionId of an
\* instance whose signature is set.
C21_ImmutableOnceSigned ==
  SignaturePresent(vout.before) =>
    \A key \in {"context", "parameters", "appCallbackUrl", "redirectUrl",
                "providerId", "applicationId", "timeStamp", "sessionId"} :
      vin[key] = vout.before[key]

\* the last call was a call of one of the four setters
SetterCalled ==
  vout.op \in {"addContext", "setParams", "setAppCallbackUrl",
               "setRedirectUrl"}

\* C23: if addContext, setParams, setAppCallbackUrl or setRedirectUrl
\* raises, every field of the request has the value it had before the call.
C23_FailedSetterChangesNothing ==
  (SetterCalled /\ vout.result.threw) => vin = vout.before

\* addContext raised on an instance whose context, parameters and urls had
\* been set before
C23_Witness ==
  /\ vout.op = "addContext"
  /\ vout.result.threw
  /\ vout.before.context = Context(Str("0x1"), Str("message"))
  /\ vout.before.parameters = SomeParams
  /\ vout.before.appCallbackUrl = Str("https://app.example/callback")
  /\ vout.before.redirectUrl = Str("https://app.example/redirect")
  /\ vin = vout.before

\* the arguments of the last setter call are not what the setter takes: two
\* non-blank strings, a map of strings, a url
InvalidInput ==
  CASE vout.op = "addContext" ->
         NotAName(vout.args[1]) \/ NotAName(vout.args[2])
    [] vout.op = "setParams" ->
         \/ vout.args[1].t # "object"
         \/ \E key \in DOMAIN vout.args[1].o : ~IsString(vout.args[1].o[key])
    [] vout.op \in {"setAppCallbackUrl", "setRedirectUrl"} ->
         ~IsString(vout.args[1]) \/ vout.args[1].v \notin ValidUrls
    [] OTHER -> FALSE

\* C24: no setter accepts invalid input; addContext raises AddContextError
\* and setParams SetParamsError, each with the InvalidParamError of the
\* validation as inner cause, and the two url setters raise the
\* InvalidParamError of validateURL, whose inner cause is the url parser's
\* error.
C24_SettersRefuseInvalidInput ==
  (SetterCalled /\ InvalidInput) =>
    /\ vout.result.threw
    /\ vout.op = "addContext" =>
         /\ vout.result.err = "AddContextError"
         /\ vout.result.inner = "InvalidParamError"
    /\ vout.op = "setParams" =>
         /\ vout.result.err = "SetParamsError"
         /\ vout.result.inner = "InvalidParamError"
    /\ vout.op \in {"setAppCallbackUrl", "setRedirectUrl"} =>
         /\ vout.result.err = "InvalidParamError"
         /\ vout.result.inner = "TypeError"

\* setRedirectUrl was given a string that is no url and raised
C24_Witness ==
  /\ vout.op = "setRedirectUrl"
  /\ vout.args = << Str("not a url") >>
  /\ vout.result.err = "InvalidParamError"

\* C24 as stated: a setter given invalid input raises an error named for
\* that setter.
C24_ErrorNamedForSetter ==
  (SetterCalled /\ InvalidInput) =>
    /\ vout.result.threw
    /\ vout.result.err =
         CASE vout.op = "addContext" -> "AddContextError"
           [] vout.op = "setParams" -> "SetParamsError"
           [] vout.op = "setAppCallbackUrl" -> "SetAppCallbackUrlError"
           [] vout.op = "setRedirectUrl" -> "SetRedirectUrlError"

\* ------------------------------------------------------------------------
\* Claims about the lifecycle (SpecLifecycle)
\* ------------------------------------------------------------------------

\* C22: startSession begins polling only on an instance for which
\* getRequestUrl has completed successfully; polling is never entered from
\* an instance that is signed but not linked.
C22_PollingOnlyWhenLinked ==
  started > 0 => Linked

\* ------------------------------------------------------------------------
\* Claims about link shortening (SpecRequestUrl)
\* ------------------------------------------------------------------------

\* getRequestUrl went through the short-link flow: it returned and had asked
\* the shortener
ShortLinkFlow ==
  /\ vout.done
  /\ ~vout.result.threw
  /\ vout.result.calls = <<"updateSession", "shortener">>

\* C25: in the short-link flow getRequestUrl returns the shortened url when
\* the shortener supplies one and the full link in every other case; it
\* never returns an undefined value and never raises because of the
\* shortener.
C25_ShorteningNeverLosesLink ==
  /\ ShortLinkFlow =>
       vout.result.value =
         IF vin.env.shortener = "shortUrl"
         THEN Str("https://rclm.link/short")
         ELSE Link("RECLAIM_SHARE_URL",
                   TemplateDataOf(vin.req,
                                  RequestAppCallbackUrl(vin.req).value))
  /\ (vout.done /\ vout.result.threw) =>
       vout.result.err \in {"SignatureNotFoundError", "InvalidSignatureError",
                            "GetAppCallbackUrlError", "UpdateSessionError"}

\* ------------------------------------------------------------------------
\* Claims about the error of the quorum check (SpecQuorum)
\* ------------------------------------------------------------------------

\* C26: when assertValidSignedClaim fails with ProofNotVerifiedError, the
\* error names exactly the expected witness addresses that are not among the
\* recovered signers, in errors.ts and in the legacy utils.ts alike.
C26_ErrorNamesMissingWitnesses ==
  (vout.done /\ AllRecover(vin.signatures)) =>
    /\ ~vout.new.ok =>
         vout.new.named = SeqSet(vin.expected) \ Signers(vin.signatures)
    /\ ~vout.legacy.ok =>
         vout.legacy.named = SeqSet(vin.expected) \ Signers(vin.signatures)

\* ------------------------------------------------------------------------
\* Claims about cancellation and about single ticks (SpecRun)
\* ------------------------------------------------------------------------

\* C27: once a clear has removed the interval handle of the session from
\* the registry, a further clear leaves the registry and the timers as they
\* are and the cleared interval starts no tick again.
C27_ClearIsIdempotent ==
  [][(started > 0 /\ ~MapHas(intervals, sessionId)) =>
       /\ intervals' = intervals
       /\ timers' = timers
       /\ clearInterval(sessionId, intervals, timers) =
            [intervals |-> intervals, timers |-> timers]
       /\ \A h \in Handles :
            CopiesIn(FetchTick(h), ticks') <= CopiesIn(FetchTick(h), ticks)]_vars

\* a second tick of the run ended and cleared when the registry was already
\* empty
C27_Witness ==
  /\ started > 0
  /\ lastTick.cleared
  /\ intervals = {}
  /\ timers = {}
  /\ onSuccessCalls[lastTick.h] + onErrorCalls[lastTick.h] >= 2

\* a tick body resumed from its status fetch in this step, the response
\* carrying no session payload
NoSessionTick ==
  /\ BagCardinality(ticks') < BagCardinality(ticks)
  /\ lastTick'.phase = "fetch"
  /\ ~lastTick'.threw
  /\ ~lastTick'.session

\* C28: a tick whose status response carries no session payload invokes no
\* callback, leaves the failure timer as it was (set or unset), leaves the
\* interval timer and the registry entry in place and returns, so that the
\* interval fires again.
C28_NoSessionTickIsNoOp ==
  [][NoSessionTick =>
       /\ onSuccessCalls' = onSuccessCalls
       /\ onErrorCalls' = onErrorCalls
       /\ lastFailureTime' = lastFailureTime
       /\ intervals' = intervals
       /\ timers' = timers
       /\ lastTick'.out = "return"
       /\ ~lastTick'.cleared
       /\ \A t \in BagToSet(ticks') : CopiesIn(t, ticks') <= CopiesIn(t, ticks)]_vars

\* a tick without session payload has returned while the failure timer was
\* set and the interval of the session is registered and live
C28_Witness ==
  /\ lastTick.phase = "fetch"
  /\ ~lastTick.threw
  /\ ~lastTick.session
  /\ lastTick.out = "return"
  /\ lastFailureTime # Undefined
  /\ MapHas(intervals, sessionId)
  /\ MapGet(intervals, sessionId) \in timers

\* the latest tick verified the proofs of its payload and reached onSuccess
VerifiedSuccess ==
  /\ lastTick.phase = "verify"
  /\ lastTick.out = "success"

\* C29: on success in default-callback mode onSuccess receives the proof
\* itself, not a list, when the payload holds exactly one proof, and the
\* list of all proofs of the payload in payload order when it holds more.
C29_OneProofUnwrapped ==
  VerifiedSuccess =>
    /\ lastTick.mode = "default"
    /\ Len(lastTick.proofs) = 1 =>
         /\ lastTick.arg = "proof"
         /\ ~onSuccessArgument(lastTick.proofs).list
         /\ onSuccessArgument(lastTick.proofs).items = << lastTick.proofs[1] >>
    /\ Len(lastTick.proofs) > 1 =>
         /\ lastTick.arg = "list"
         /\ onSuccessArgument(lastTick.proofs).list
         /\ onSuccessArgument(lastTick.proofs).items = lastTick.proofs

\* onSuccess was invoked with the single proof of a payload
C29_Witness ==
  /\ VerifiedSuccess
  /\ Len(lastTick.proofs) = 1
  /\ lastTick.arg = "proof"
  /\ onSuccessCalls[lastTick.h] > 0

\* ------------------------------------------------------------------------
\* Claims about the errors raised around a lower-level failure
\* (SpecFromJson)
\* ------------------------------------------------------------------------

\* C30: every error raised as a wrapper around a lower-level failure
\* carries that failure as its inner cause; here the InvalidParamError that
\* fromJsonString raises when parsing or a validation failed.
C30_WrapperCarriesCause ==
  (vout.done /\ vout.result.threw) =>
    /\ vout.result.err = "InvalidParamError"
    /\ vout.result.inner # "none"

\* ------------------------------------------------------------------------
\* Claims about the verdict of verifyProof (SpecVerify)
\* ------------------------------------------------------------------------

\* C31: verifyProof returns true only if the resolved expected witness set
\* is not empty and every member of it signed the claim.
C31_EmptyWitnessSetNeverAccepted ==
  (vout.done /\ ~vout.new.threw /\ vout.new.value) =>
    /\ Len(vout.new.witnesses) > 0
    /\ Covered(vin.proof.signatures, vout.new.witnesses)

\* ------------------------------------------------------------------------
\* Claims about callbacks that raise (SpecCallbacks)
\* ------------------------------------------------------------------------

\* C32: onError is invoked only for failures of the tick itself; a tick
\* that delivered onSuccess never goes on to invoke onError, even when the
\* caller's onSuccess raises.
C32_OnErrorOnlyForTickFailures ==
  lastTick.out = "success" => lastTick.err = "none"

\* C33: on the error path of a tick the interval is cleared and leaves the
\* registry even when the caller's onError raises, so that no timer is left
\* running after onError was invoked.
C33_ErrorPathAlwaysClears ==
  lastTick.out = "error" =>
    /\ lastTick.cleared
    /\ ~MapHas(intervals, sessionId)
    /\ timers = {}

\* ------------------------------------------------------------------------
\* Claim about a polling run that follows an earlier one (SpecRestart)
\* ------------------------------------------------------------------------

\* C34: a startSession call made when no polling run is live begins its
\* run with the failure timer unset, whatever the earlier run left behind.
C34_RunBeginsWithTimerUnset ==
  [][(started' > started /\ timers = {} /\ ticks = EmptyBag) =>
       lastFailureTime' = Undefined]_vars

\* ------------------------------------------------------------------------
\* Claim about payloads that carry proofs (SpecRun)
\* ------------------------------------------------------------------------

\* the latest tick resumed from its status fetch in default-callback mode
\* with a session payload of at least one proof
ProofsSeenByDefault ==
  /\ lastTick.phase = "fetch"
  /\ lastTick.session
  /\ Len(lastTick.proofs) > 0
  /\ Mode(appCallbackUrl, sessionId) = "default"

\* C35 as stated: in default-callback mode every tick whose payload carries
\* at least one proof is terminal (it goes on to verification or ends with
\* onError), whatever status accompanies the proofs.
C35_ProofsAlwaysTerminal ==
  ProofsSeenByDefault => lastTick.out \in {"await", "error"}

\* C35: in default-callback mode a tick whose payload carries at least one
\* proof and a status other than PROOF_GENERATION_FAILED is terminal: it
\* ends with onError and the interval cleared, or awaits verification, and
\* the tick resumed from verification invokes onSuccess or onError and
\* leaves no timer; with PROOF_GENERATION_FAILED the proofs are not looked
\* at and the tick only returns or times out.
C35_ProofsTerminalUnlessFailed ==
  /\ ProofsSeenByDefault =>
       IF lastTick.status = "PROOF_GENERATION_FAILED"
       THEN /\ lastTick.out \in {"return", "error"}
            /\ lastTick.out = "error" => lastTick.err = "ProviderFailedError"
       ELSE /\ lastTick.out \in {"await", "error"}
            /\ lastTick.out = "error" => (lastTick.cleared /\ timers = {})
  /\ lastTick.phase = "verify" =>
       /\ lastTick.out \in {"success", "error"}
       /\ onSuccessCalls[lastTick.h] + onErrorCalls[lastTick.h] > 0
       /\ lastTick.cleared
       /\ timers = {}
       /\ intervals = {}

\* a payload with a proof and a status that does not speak of submission
\* sent the tick to verification
C35_Witness ==
  /\ ProofsSeenByDefault
  /\ lastTick.status = "PROOF_GENERATION_STARTED"
  /\ lastTick.out = "await"
  /\ \E t \in BagToSet(ticks) : t.pc = "verify" /\ t.h = lastTick.h

\* ------------------------------------------------------------------------
\* Claim about the form of witness ids (SpecVerify)
\* ------------------------------------------------------------------------

\* C36: a manual-verify proof is accepted exactly when the same proof is
\* accepted with its witness id coming from the beacon, whatever the case
\* the id is written in.
C36_WitnessIdsComparedInOneForm ==
  (vout.done /\ ManualVerify(vin.proof) /\ Len(vin.proof.signatures) > 0) =>
    vout.new.value =
      verifyProofOne(
        [vin.proof EXCEPT !.witnesses = <<>>],
        [avail |-> TRUE, up |-> TRUE,
         select |-> SelectAll(<<vin.proof.witnesses[1].id>>)]).value

\* ------------------------------------------------------------------------
\* Claim about the identifier handed to witness resolution (SpecVerify)
\* ------------------------------------------------------------------------

\* C37: verifyProof resolves the witnesses of a proof whose stated
\* identifier carries quote characters against the same witness set, and
\* with the same verdict, as for the same proof without them.
C37_ResolvedByNormalizedIdentifier ==
  (vout.done /\ ~ManualVerify(vin.proof) /\ Len(vin.proof.signatures) > 0) =>
    LET unquoted ==
          verifyProofOne([vin.proof EXCEPT !.identifier = Unquoted(@)],
                         vin.beacon)
    IN  /\ vout.new.witnesses = unquoted.witnesses
        /\ vout.new.value = unquoted.value

\* ------------------------------------------------------------------------
\* Claim about the signature of a new instance (SpecInit)
\* ------------------------------------------------------------------------

\* C38: every instance init returns passes the signature validation that
\* getRequestUrl applies to its providerId, signature, applicationId and
\* timeStamp: its signer is the address given as applicationId.
C38_InitSignatureRevalidates ==
  (vout.done /\ ~vout.result.threw) =>
    ~validateSignature(vout.result.value.providerId,
                       vout.result.value.signature,
                       vout.result.value.applicationId,
                       vout.result.value.timeStamp).threw

\* ------------------------------------------------------------------------
\* Claim about the errors of verifyProof (SpecVerify)
\* ------------------------------------------------------------------------

\* witness resolution of the proof fails: no manual-verify entry and no
\* beacon, or a beacon whose state cannot be fetched
ResolutionFails(proof, beacon) ==
  ~ManualVerify(proof) /\ (~beacon.avail \/ ~beacon.up)

\* C39: for a proof with at least one signature verifyProof never raises;
\* a failing witness resolution, an identifier mismatch, a malformed
\* signature and a missing witness signature each give false.  It raises,
\* with SignatureNotFoundError, exactly when the proof has no signatures.
C39_FailuresReturnFalse ==
  vout.done =>
    /\ vout.new.threw <=> Len(vin.proof.signatures) = 0
    /\ vout.new.threw => vout.new.err = "SignatureNotFoundError"
    /\ Len(vin.proof.signatures) > 0 =>
         /\ ResolutionFails(vin.proof, vin.beacon) => ~vout.new.value
         /\ IdentifierMismatch(vin.proof) => ~vout.new.value
         /\ ~AllRecover(vin.proof.signatures) => ~vout.new.value
         /\ (~ResolutionFails(vin.proof, vin.beacon)
             /\ ~Covered(vin.proof.signatures,
                         ResolveWitnesses(vin.proof, vin.beacon).witnesses))
              => ~vout.new.value

\* a signed proof met no beacon and verifyProof returned false
C39_Witness ==
  /\ vout.done
  /\ Len(vin.proof.signatures) > 0
  /\ ~ManualVerify(vin.proof)
  /\ ~vin.beacon.avail
  /\ ~vout.new.threw
  /\ ~vout.new.value

\* ------------------------------------------------------------------------
\* Claim about the legacy class (SpecLegacy)
\* ------------------------------------------------------------------------

\* C40: in the legacy class startSession proceeds only if a
\* createVerificationRequest call completed before; while none has, it
\* raises SessionNotStartedError and opens no url.
C40_StartOnlyAfterCreatedRequest ==
  (vout.op = "startSession" /\ ~vout.completed) =>
    /\ vout.err = "SessionNotStartedError"
    /\ vout.opened = "none"

====
